---- MODULE Spec2Model ----
(***************************************************************************)
(* A model of the video_content_creator pipeline: the content-safety gate, *)
(* script composition, web research and the generate command.              *)
(*                                                                         *)
(* Texts are sequences of one-character strings, so that the regular       *)
(* expressions and substring tests of the code are computed on characters. *)
(***************************************************************************)
EXTENDS Integers, Sequences, FiniteSets, TLC

VARIABLES
    strict_mode,   \* ContentSafetyChecker.strict_mode
    phase,         \* the operation of the safety checker that ran last
    text,          \* the text unit last handed to check_text
    result,        \* what check_text returned for it
    base,          \* the unit (text and result) before a context term was added
    added,         \* the context term added to the unit, and where
    script,        \* the script last handed to check_script
    details,       \* what check_script returned for it
    pc,            \* generate: the step the command has reached
    log,           \* generate: the calls made so far, in order
    check_calls,   \* generate: how many times check_script has run
    exit_code,     \* generate: the status the process ended with
    research,      \* generate: --research
    tts_engine,    \* generate: --tts-engine / --voice-sample, once read
    image_source,  \* generate: --image-source, once read
    no_captions,   \* generate: --no-captions
    save_intermediate,  \* generate: --save-intermediate
    path,          \* composer: "simple" (ScriptGenerator) or "research"
    llm,           \* composer: the text-generation model: absent, raising, or its response
    input_data,    \* ScriptGenerator.generate_script: title, key_points, target_length
    research_result,  \* ResearchScriptGenerator: the ResearchResult composed from
    target_length, \* ResearchScriptGenerator: the requested length in seconds
    composed,      \* composer: "no", "returned", "raised" or "enhanced"
    topic,         \* research_topic: the topic researched
    max_sources,   \* research_topic: the maximum number of sources
    provider,      \* research_topic: what the search provider and the sites answer
    search_results,  \* research_topic: what _search_web returned
    articles,      \* _fetch_articles: the articles so far
    fetch_i,       \* _fetch_articles: sources gone through so far
    rpc,           \* research_topic: "idle", "start", "fetching" or "done"
    audio,         \* generate: the voiceover file generate_voiceover left
    timings,       \* generate: what tts.generate_scene_timings returned
    captions,      \* generate: what generate_captions_from_script returned
    tpc,           \* generate, timing steps: "idle", "start", "voiced", "timed", "captioned" or "failed"
    fetcher,       \* SmartImageFetcher.fetch_images: the loop over the units
    saving,        \* save_script: the script, the file written and what is read back
    fs,            \* the files of the output directories: who wrote each last
    runs           \* two generate commands running side by side

checkerVars == <<phase, text, result, base, added>>

pipeVars == <<pc, log, check_calls, exit_code, research, tts_engine,
              image_source, no_captions, save_intermediate>>

composeVars == <<path, llm, input_data, research_result, target_length, composed>>

researchVars == <<topic, max_sources, provider, search_results, articles, fetch_i, rpc>>

timingVars == <<audio, timings, captions, tpc>>

laterVars == <<fetcher, saving, fs, runs>>

olderVars == <<strict_mode, script, details, checkerVars, pipeVars, composeVars,
               researchVars, timingVars>>

vars == <<olderVars, laterVars>>

----------------------------------------------------------------------------
(* Bounds of the model *)

\* pieces concatenated into one text unit
MaxPieces == 2

\* scenes of a script handed to check_script
MaxScenes == 2

\* scenes in a JSON answer of the text-generation model
MaxLlmScenes == 3

\* --length, in seconds
MaxTarget == 61

\* key points of the parsed input
MaxKeyPoints == 8

\* facts of a research result
MaxFacts == 10

\* max_sources of a research call whose result pages vary
MaxSources == 3

\* .result elements of the result page of the plain query
MaxPage == 3

\* .result elements of the result page of the news query
MaxNews == 2

----------------------------------------------------------------------------
(* Characters and the string operations the code uses *)

UpperCase == <<"A","B","C","D","E","F","G","H","I","J","K","L","M",
               "N","O","P","Q","R","S","T","U","V","W","X","Y","Z">>

LowerCase == <<"a","b","c","d","e","f","g","h","i","j","k","l","m",
               "n","o","p","q","r","s","t","u","v","w","x","y","z">>

Digits == {"0","1","2","3","4","5","6","7","8","9"}

Range(s) == {s[i] : i \in DOMAIN s}

UpperSet == Range(UpperCase)

ToLower == [c \in UpperSet |-> LowerCase[CHOOSE i \in 1..26 : UpperCase[i] = c]]

\* str.lower() on one character
LowerChar(c) == IF c \in UpperSet THEN ToLower[c] ELSE c

\* str.lower()
lower(t) == [i \in 1..Len(t) |-> LowerChar(t[i])]

\* the characters \w of Python's re matches
WordChars == UpperSet \cup Range(LowerCase) \cup Digits \cup {"_"}

\* the pattern p matches the text t from position i on
MatchAt(p, t, i) ==
    /\ i >= 1
    /\ i + Len(p) - 1 <= Len(t)
    /\ \A j \in 1..Len(p) : t[i + j - 1] = p[j]

\* Python's  p in t
Contains(p, t) == \E i \in 1..(Len(t) + 1) : MatchAt(p, t, i)

\* \b of Python's re, just before position i of t
WordBoundary(t, i) ==
    LET before == i - 1 >= 1 /\ i - 1 <= Len(t) /\ t[i - 1] \in WordChars
        after  == i >= 1 /\ i <= Len(t) /\ t[i] \in WordChars
    IN  before # after

\* the keyword searched as a plain substring (the \b anchors forgotten)
SearchWord_substring(keyword, t) == Contains(keyword, t)

\* re.search(r'\b' + re.escape(keyword) + r'\b', t)
SearchWord(keyword, t) ==
    \E i \in 1..(Len(t) + 1) :
        /\ MatchAt(keyword, t, i)
        /\ WordBoundary(t, i)
        /\ WordBoundary(t, i + Len(keyword))

----------------------------------------------------------------------------
(* ContentSafetyChecker *)

explicit_keywords ==
    << <<"k","i","l","l">>, <<"m","u","r","d","e","r">>, <<"a","s","s","a","u","l","t">>,
       <<"a","t","t","a","c","k">>, <<"w","e","a","p","o","n">>, <<"g","u","n">>, <<"b","o","m","b">>,
       <<"t","e","r","r","o","r">>, <<"v","i","o","l","e","n","c","e">>, <<"b","l","o","o","d">>,
       <<"g","o","r","e">>, <<"d","e","a","t","h">>, <<"s","u","i","c","i","d","e">>,
       <<"s","e","x">>, <<"p","o","r","n">>, <<"n","u","d","e">>, <<"n","a","k","e","d">>,
       <<"e","x","p","l","i","c","i","t">>, <<"n","s","f","w">>, <<"h","a","t","e">>,
       <<"r","a","c","i","s","t">>, <<"d","i","s","c","r","i","m","i","n","a","t","i","o","n">>,
       <<"s","l","u","r">>, <<"d","r","u","g">>, <<"i","l","l","e","g","a","l">>, <<"c","r","i","m","e">>,
       <<"s","t","e","a","l">>, <<"h","a","c","k">>, <<"f","r","a","u","d">>, <<"s","e","l","f","-","h","a","r","m">>,
       <<"c","u","t","t","i","n","g">>, <<"a","n","o","r","e","x","i","a">>, <<"b","u","l","i","m","i","a">> >>

warning_keywords ==
    << <<"c","o","n","t","r","o","v","e","r","s","i","a","l">>, <<"s","e","n","s","i","t","i","v","e">>,
       <<"p","o","l","i","t","i","c","a","l">>, <<"r","e","l","i","g","i","o","n">>,
       <<"c","o","n","s","p","i","r","a","c","y">>, <<"u","n","v","e","r","i","f","i","e","d">>,
       <<"m","i","s","i","n","f","o","r","m","a","t","i","o","n">> >>

allowed_contexts ==
    << <<"m","e","d","i","c","a","l">>, <<"e","d","u","c","a","t","i","o","n","a","l">>,
       <<"h","e","a","l","t","h","c","a","r","e">>, <<"s","c","i","e","n","c","e">>,
       <<"h","i","s","t","o","r","y">>, <<"d","o","c","u","m","e","n","t","a","r","y">>,
       <<"a","w","a","r","e","n","e","s","s">>, <<"p","r","e","v","e","n","t","i","o","n">>,
       <<"n","e","w","s">>, <<"r","e","p","o","r","t">>, <<"m","i","l","i","t","a","r","y">>,
       <<"o","p","e","r","a","t","i","o","n">>, <<"p","r","e","s","i","d","e","n","t">>,
       <<"g","o","v","e","r","n","m","e","n","t">>, <<"o","f","f","i","c","i","a","l">>,
       <<"a","n","n","o","u","n","c","e","d">>, <<"c","a","p","t","u","r","e">>, <<"a","r","r","e","s","t">> >>

\* a context term counts only when it is the whole text (a slip for `in`)
is_allowed_context_equal(t) ==
    \E i \in DOMAIN allowed_contexts : allowed_contexts[i] = t

\* _is_allowed_context: some allowed context is a substring of the text
is_allowed_context(t) ==
    \E i \in DOMAIN allowed_contexts : Contains(allowed_contexts[i], t)

\* check_text: the tuple (is_safe, reason, flagged_words)
check_text(t) ==
    LET text_lower == lower(t)
        flagged_words ==
            SelectSeq(explicit_keywords,
                      LAMBDA kw : SearchWord(kw, text_lower)
                                  /\ ~is_allowed_context(text_lower))
        warning_words ==
            SelectSeq(warning_keywords, LAMBDA kw : SearchWord(kw, text_lower))
    IN  IF flagged_words # <<>>
            THEN [safe |-> FALSE, reason |-> "inappropriate",
                  flagged_words |-> flagged_words]
        ELSE IF warning_words # <<>> /\ strict_mode
            THEN [safe |-> TRUE, reason |-> "warning",
                  flagged_words |-> warning_words]
        ELSE [safe |-> TRUE, reason |-> "passed", flagged_words |-> <<>>]

\* check_script's loop: overall_safe after the hook and the first k scenes
RECURSIVE OverallSafeAfter(_, _, _)
OverallSafeAfter(hook_res, scene_res, k) ==
    IF k = 0
        THEN (IF ~hook_res.safe THEN FALSE ELSE TRUE)
        ELSE (IF ~scene_res[k].safe THEN FALSE
              ELSE OverallSafeAfter(hook_res, scene_res, k - 1))

\* overall_safe taken from the last section checked only (a slip for the flag
\* that is only ever lowered)
check_script_last_only(s) ==
    LET hook_res == check_text(s.hook.text)
        n == Len(s.scenes)
        scene_res == [i \in 1..n |->
            LET r == check_text(s.scenes[i].narration \o <<" ">> \o s.scenes[i].text_overlay)
            IN  [scene_num |-> i, safe |-> r.safe, reason |-> r.reason,
                 flagged_words |-> r.flagged_words]]
        overall == IF n = 0 THEN hook_res.safe ELSE scene_res[n].safe
    IN  [is_safe |-> overall,
         report  |-> [passed |-> overall, flagged_count |-> 0],
         details |-> [hook |-> hook_res, scenes |-> scene_res,
                      overall_safe |-> overall, warnings |-> <<>>]]

\* check_script: the tuple (is_safe, report, details)
check_script(s) ==
    LET hook_res == check_text(s.hook.text)
        n == Len(s.scenes)
        scene_res == [i \in 1..n |->
            LET r == check_text(s.scenes[i].narration \o <<" ">> \o s.scenes[i].text_overlay)
            IN  [scene_num |-> i, safe |-> r.safe, reason |-> r.reason,
                 flagged_words |-> r.flagged_words]]
        overall == OverallSafeAfter(hook_res, scene_res, n)
        flagged_count ==
            Cardinality({i \in 1..n : ~scene_res[i].safe})
            + (IF ~hook_res.safe THEN 1 ELSE 0)
    IN  [is_safe |-> overall,
         report  |-> [passed |-> overall,
                      flagged_count |-> IF overall THEN 0 ELSE flagged_count],
         details |-> [hook |-> hook_res, scenes |-> scene_res,
                      overall_safe |-> overall, warnings |-> <<>>]]

\* get_safety_report: evaluates the script with check_script and formats
\* the outcome: the status line, the hook's lines, one line per scene
get_safety_report(s) ==
    LET r == check_script(s)
    IN  [status |-> r.report,
         hook   |-> [safe |-> r.details.hook.safe,
                     flagged_words |-> r.details.hook.flagged_words,
                     reason |-> r.details.hook.reason],
         scenes |-> [i \in 1..Len(r.details.scenes) |->
                        [scene_num |-> r.details.scenes[i].scene_num,
                         safe |-> r.details.scenes[i].safe,
                         flagged_words |-> r.details.scenes[i].flagged_words]]]

----------------------------------------------------------------------------
(* Inputs of the safety checker *)

\* the texts of the module's self-test (safety_checker.py, __main__)
test_safe ==
    <<"A","I"," ","i","s"," ","t","r","a","n","s","f","o","r","m","i","n","g"," ","h","e","a","l","t","h","c","a","r","e"," ","t","h","r","o","u","g","h"," ","b","e","t","t","e","r"," ","d","i","a","g","n","o","s","i","s">>

test_unsafe ==
    <<"H","o","w"," ","t","o"," ","h","a","c","k"," ","i","n","t","o"," ","s","y","s","t","e","m","s"," ","a","n","d"," ","s","t","e","a","l"," ","d","a","t","a">>

test_medical ==
    <<"M","e","d","i","c","a","l"," ","r","e","s","e","a","r","c","h"," ","o","n"," ","d","r","u","g"," ","i","n","t","e","r","a","c","t","i","o","n","s"," ","i","n"," ","h","e","a","l","t","h","c","a","r","e">>

\* the pieces text units are put together from: blocking keywords in both
\* cases, a letter that glues to a word, a capitalised allowed context and a
\* warning keyword
Pieces ==
    { <<"D","r","u","g">>, <<"h","a","c","k"," ">>, <<"s">>,
      <<" ","M","e","d","i","c","a","l">>,
      <<" ","p","o","l","i","t","i","c","a","l">> }

\* a keyword followed by an underscore, which \w matches
underscored == <<"h","a","c","k","_"," ","d","r","u","g">>

\* the keyword that holds a hyphen
hyphenated == <<"S","e","l","f","-","H","a","r","m","!">>

RECURSIVE PieceTexts(_)
PieceTexts(n) ==
    IF n = 0 THEN {<< >>}
    ELSE LET shorter == PieceTexts(n - 1)
         IN  shorter \cup {t \o p : t \in shorter, p \in Pieces}

Texts ==
    PieceTexts(MaxPieces)
    \cup {test_safe, test_unsafe, test_medical, underscored, hyphenated}

\* the allowed-context terms added to a unit
AddedTerms == {<<"m","e","d","i","c","a","l">>, <<"n","e","w","s">>}

RECURSIVE SeqsUpTo(_, _)
SeqsUpTo(S, n) ==
    IF n = 0 THEN {<< >>}
    ELSE LET shorter == SeqsUpTo(S, n - 1)
         IN  shorter \cup {Append(q, x) : q \in shorter, x \in S}

\* scripts as check_script reads them: the hook's text, and the narration and
\* text_overlay of every scene
TextScripts ==
    LET HookTexts ==
            { <<"A","I"," ","h","e","l","p","s">>,
              <<"h","a","c","k"," ","t","h","e"," ","b","a","n","k">>,
              <<"D","r","u","g"," ","r","e","p","o","r","t">> }
        Narrations ==
            { <<"A","I"," ","h","e","l","p","s">>,
              <<"h","a","c","k"," ","t","h","e"," ","b","a","n","k">>,
              <<"d","r","u","g">> }
        Overlays == { <<"F","O","L","L","O","W">>, <<"n","e","w","s">> }
        TextScenes == [narration : Narrations, text_overlay : Overlays]
    IN  [hook : [text : HookTexts], scenes : SeqsUpTo(TextScenes, MaxScenes)]

NoResult == [safe |-> TRUE, reason |-> "none", flagged_words |-> << >>]

NoScript == [hook |-> [text |-> << >>], scenes |-> << >>]

NoDetails ==
    [is_safe |-> TRUE, report |-> [passed |-> TRUE, flagged_count |-> 0],
     details |-> [hook |-> NoResult, scenes |-> << >>,
                  overall_safe |-> TRUE, warnings |-> << >>]]

\* the generate command is not running
PipeIdle ==
    /\ pc = "idle"
    /\ log = << >>
    /\ check_calls = 0
    /\ exit_code = -1
    /\ research = FALSE
    /\ tts_engine = "unset"
    /\ image_source = "unset"
    /\ no_captions = FALSE
    /\ save_intermediate = FALSE

\* no voiceover has been rendered
NoAudio == [exists |-> FALSE, readable |-> FALSE, duration |-> 0]

\* the timing steps of generate are not running
TimingIdle ==
    /\ audio = NoAudio
    /\ timings = << >>
    /\ captions = << >>
    /\ tpc = "idle"

\* no images are fetched, no script is saved and no two commands run side by
\* side
LaterIdle ==
    /\ fetcher = << >>
    /\ saving = << >>
    /\ fs = << >>
    /\ runs = << >>

\* no research is under way
ResearchIdle ==
    /\ topic = << >>
    /\ max_sources = 0
    /\ provider = << >>
    /\ search_results = << >>
    /\ articles = << >>
    /\ fetch_i = 0
    /\ rpc = "idle"

\* no script is being composed
ComposeIdle ==
    /\ path = "none"
    /\ llm = [kind |-> "absent"]
    /\ input_data = << >>
    /\ research_result = << >>
    /\ target_length = 0
    /\ composed = "no"

\* the safety checker is not under test
CheckerIdle ==
    /\ phase = "idle"
    /\ text = << >>
    /\ result = NoResult
    /\ base = [text |-> << >>, result |-> NoResult]
    /\ added = [term |-> << >>, pos |-> 0]

----------------------------------------------------------------------------
(* The safety checker on its own: check_text and check_script applied to *)
(* the inputs above, and a context term added to and removed from a unit *)

SafetyInit ==
    /\ LaterIdle
    /\ TimingIdle
    /\ strict_mode \in BOOLEAN
    /\ phase = "init"
    /\ \/ text \in Texts /\ script = NoScript
       \/ text = << >> /\ script \in TextScripts
    /\ result = NoResult
    /\ base = [text |-> << >>, result |-> NoResult]
    /\ added = [term |-> << >>, pos |-> 0]
    /\ details = NoDetails
    /\ PipeIdle
    /\ ComposeIdle
    /\ ResearchIdle

\* checker.check_text(text)
CheckText ==
    /\ phase = "init"
    /\ phase' = "check_text"
    /\ result' = check_text(text)
    /\ UNCHANGED <<laterVars, timingVars, strict_mode, text, base, added, script, details, pipeVars, composeVars,
                   researchVars>>

\* the unit just checked gets an allowed-context term inserted at some
\* position and is checked again
AddContext ==
    \E term \in AddedTerms, pos \in 0..Len(text) :
        /\ phase = "check_text"
        /\ phase' = "add_context"
        /\ base' = [text |-> text, result |-> result]
        /\ added' = [term |-> term, pos |-> pos]
        /\ LET longer == SubSeq(text, 1, pos) \o term
                          \o SubSeq(text, pos + 1, Len(text))
           IN  text' = longer /\ result' = check_text(longer)
        /\ UNCHANGED <<laterVars, timingVars, strict_mode, script, details, pipeVars, composeVars,
                   researchVars>>

\* the inserted term is taken out again and the unit is checked again
RemoveContext ==
    /\ phase = "add_context"
    /\ phase' = "remove_context"
    /\ LET shorter == SubSeq(text, 1, added.pos)
                       \o SubSeq(text, added.pos + Len(added.term) + 1, Len(text))
       IN  text' = shorter /\ result' = check_text(shorter)
    /\ UNCHANGED <<laterVars, timingVars, strict_mode, base, added, script, details, pipeVars, composeVars,
                   researchVars>>

\* checker.check_script(script)
CheckScript ==
    /\ phase = "init"
    /\ phase' = "check_script"
    /\ details' = check_script(script)
    /\ UNCHANGED <<laterVars, timingVars, strict_mode, text, result, base, added, script, pipeVars, composeVars,
                   researchVars>>

SafetyNext == CheckText \/ AddContext \/ RemoveContext \/ CheckScript

SpecSafety == SafetyInit /\ [][SafetyNext]_vars

----------------------------------------------------------------------------
(* Properties of the safety checker *)

\* kw stands in t at position i, whatever the case of t's letters, with no
\* letter, digit or underscore right before it or right after it
StandsAlone(kw, t, i) ==
    /\ i + Len(kw) - 1 <= Len(t)
    /\ \A j \in 1..Len(kw) : LowerChar(t[i + j - 1]) = kw[j]
    /\ (i = 1 \/ t[i - 1] \notin WordChars)
    /\ (i + Len(kw) - 1 = Len(t) \/ t[i + Len(kw)] \notin WordChars)

\* the blocking keywords that occur in t as whole words
BlockingIn(t) ==
    {kw \in Range(explicit_keywords) : \E i \in 1..Len(t) : StandsAlone(kw, t, i)}

\* t contains an allowed-context term, whatever the case of its letters
MentionsContext(t) ==
    \E c \in Range(allowed_contexts) :
        \E i \in 1..Len(t) :
            /\ i + Len(c) - 1 <= Len(t)
            /\ \A j \in 1..Len(c) : LowerChar(t[i + j - 1]) = c[j]

\* C4: check_text marks a unit unsafe exactly when a blocking keyword occurs
\* in it as a whole word and it contains no allowed-context term; flagged_words
\* of an unsafe unit is the set of the blocking keywords that matched, and for
\* "How to hack into systems and steal data" it holds "hack" and "steal".
C4_UnsafeIffBlockedWithoutContext ==
    phase \in {"check_text", "add_context", "remove_context"} =>
        /\ (~result.safe) <=> (BlockingIn(text) # {} /\ ~MentionsContext(text))
        /\ ~result.safe =>
              /\ Range(result.flagged_words) = BlockingIn(text)
              /\ Len(result.flagged_words) = Cardinality(BlockingIn(text))
        /\ text = test_unsafe =>
              /\ ~result.safe
              /\ {<<"h","a","c","k">>, <<"s","t","e","a","l">>}
                    \subseteq Range(result.flagged_words)

\* check_text has flagged the self-test's unsafe text
C4_Witness ==
    /\ phase = "check_text"
    /\ text = test_unsafe
    /\ ~result.safe
    /\ result.flagged_words = << <<"s","t","e","a","l">>, <<"h","a","c","k">> >>

\* C5: check_script returns overall_safe = true exactly when the hook unit and
\* every scene unit (narration, a space, text_overlay) are safe; the report has
\* one entry per scene, in script order, numbered from 1.
C5_OverallSafeIsConjunction ==
    phase = "check_script" =>
        LET d == details.details
        IN  /\ details.is_safe = d.overall_safe
            /\ d.hook.safe = check_text(script.hook.text).safe
            /\ Len(d.scenes) = Len(script.scenes)
            /\ \A i \in 1..Len(script.scenes) :
                  /\ d.scenes[i].scene_num = i
                  /\ d.scenes[i].safe =
                        check_text(script.scenes[i].narration \o <<" ">>
                                   \o script.scenes[i].text_overlay).safe
            /\ d.overall_safe <=>
                  (d.hook.safe /\ \A i \in 1..Len(d.scenes) : d.scenes[i].safe)

\* a script failed because of its first scene alone
C5_Witness ==
    /\ phase = "check_script"
    /\ Len(script.scenes) = 2
    /\ ~details.is_safe
    /\ details.details.hook.safe
    /\ ~details.details.scenes[1].safe
    /\ details.details.scenes[2].safe

\* the unit before the term was added matched one blocking keyword and held no
\* allowed-context term
OneKeywordNoContext ==
    /\ ~base.result.safe
    /\ Len(base.result.flagged_words) = 1

\* C6: a unit that matches exactly one blocking keyword and has no allowed
\* context is unsafe; with an allowed-context term added it is safe; with the
\* term removed again it is unsafe with the same flagged word.
C6_ContextFlipsUnit ==
    /\ (phase = "add_context" /\ OneKeywordNoContext) => result.safe
    /\ (phase = "remove_context" /\ OneKeywordNoContext) =>
          /\ ~result.safe
          /\ result.flagged_words = base.result.flagged_words
          /\ text = base.text

\* "medical" was added to a flagged unit after its keyword and removed again
C6_Witness ==
    /\ phase = "remove_context"
    /\ OneKeywordNoContext
    /\ added.term = <<"m","e","d","i","c","a","l">>
    /\ added.pos = Len(base.text)
    /\ base.result.flagged_words = << <<"h","a","c","k">> >>
    /\ ~result.safe

----------------------------------------------------------------------------
(* The generate command (cli/main.py): parse, compose, save, safety check, *)
(* voiceover, timings, images, captions, video, clean-up                   *)

\* the scripts the composition step hands on
PipelineScripts == {s \in TextScripts : Len(s.scenes) <= 1}

\* the calls that spend a rendering resource
RenderSteps == {"generate_voiceover", "fetch_images", "generate_images", "compose_video"}

\* the image sources and the method generate calls on each
ImageMethod ==
    [smart |-> "fetch_images", web |-> "fetch_images", stock |-> "fetch_images",
     ai |-> "generate_images", generate |-> "generate_images",
     sdxl |-> "generate_images"]

\* the gate not consulted (the sys.exit(1) of a failed check left out)
SafetyGate_ignored == TRUE

\* `if not is_safe:` is not taken
SafetyGate == details.is_safe

PipeInit ==
    /\ LaterIdle
    /\ TimingIdle
    /\ strict_mode = TRUE
    /\ script = NoScript
    /\ details = NoDetails
    /\ CheckerIdle
    /\ pc = "start"
    /\ log = << >>
    /\ check_calls = 0
    /\ exit_code = -1
    /\ research \in BOOLEAN
    /\ tts_engine = "unset"
    /\ image_source = "unset"
    /\ no_captions \in BOOLEAN
    /\ save_intermediate \in BOOLEAN
    /\ ComposeIdle
    /\ ResearchIdle

\* Step 1: parser.parse(input, length)
ParseInput ==
    /\ pc = "start"
    /\ pc' = "parsed"
    /\ log' = Append(log, "parse")
    /\ UNCHANGED <<laterVars, timingVars, strict_mode, script, details, checkerVars, check_calls,
                   exit_code, research, tts_engine, image_source, no_captions,
                   save_intermediate, composeVars,
                   researchVars>>

\* Step 2: script_gen.generate_script(...), then script_gen.save_script
GenerateScript ==
    /\ pc = "parsed"
    /\ pc' = "saved"
    /\ script' \in PipelineScripts
    /\ log' = log \o <<"generate_script", "save_script">>
    /\ UNCHANGED <<laterVars, timingVars, strict_mode, details, checkerVars, check_calls, exit_code,
                   research, tts_engine, image_source, no_captions,
                   save_intermediate, composeVars,
                   researchVars>>

\* Step 2.5: safety_checker.check_script(script)
SafetyCheck ==
    /\ pc = "saved"
    /\ pc' = "checked"
    /\ details' = check_script(script)
    /\ check_calls' = check_calls + 1
    /\ log' = Append(log, "check_script")
    /\ UNCHANGED <<laterVars, timingVars, strict_mode, script, checkerVars, exit_code, research,
                   tts_engine, image_source, no_captions, save_intermediate,
                   composeVars,
                   researchVars>>

\* `if not is_safe:` echo get_safety_report(script), which runs check_script
\* on the script again, and sys.exit(1)
SafetyAbort ==
    /\ pc = "checked"
    /\ ~details.is_safe
    /\ pc' = "exit"
    /\ exit_code' = 1
    /\ details' = check_script(script)
    /\ check_calls' = check_calls + 1
    /\ log' = log \o <<"get_safety_report", "check_script">>
    /\ UNCHANGED <<laterVars, timingVars, strict_mode, script, checkerVars, research, tts_engine,
                   image_source, no_captions, save_intermediate, composeVars,
                   researchVars>>

\* Step 3: the engine is chosen and tts.generate_voiceover(script, audio_path)
GenerateVoiceover ==
    /\ pc = "checked"
    /\ SafetyGate
    /\ pc' = "voiced"
    /\ \E engine \in {"piper", "xtts", "neutts"}, voice_sample \in BOOLEAN :
          tts_engine' =
              IF engine = "neutts" THEN "NeuTTSVoiceCloning"
              ELSE IF engine = "xtts" \/ voice_sample THEN "VoiceCloningTTS"
              ELSE "PiperTTS"
    /\ log' = Append(log, "generate_voiceover")
    /\ UNCHANGED <<laterVars, timingVars, strict_mode, script, details, checkerVars, check_calls,
                   exit_code, research, image_source, no_captions,
                   save_intermediate, composeVars,
                   researchVars>>

\* timings = tts.generate_scene_timings(script, audio_path)
GenerateSceneTimings ==
    /\ pc = "voiced"
    /\ pc' = "timed"
    /\ log' = Append(log, "generate_scene_timings")
    /\ UNCHANGED <<laterVars, timingVars, strict_mode, script, details, checkerVars, check_calls,
                   exit_code, research, tts_engine, image_source, no_captions,
                   save_intermediate, composeVars,
                   researchVars>>

\* Step 4: image_gen.fetch_images / generate_images(script, images_dir)
GenerateImages ==
    /\ pc = "timed"
    /\ pc' = "imaged"
    /\ image_source' \in DOMAIN ImageMethod
    /\ log' = Append(log, ImageMethod[image_source'])
    /\ UNCHANGED <<laterVars, timingVars, strict_mode, script, details, checkerVars, check_calls,
                   exit_code, research, tts_engine, no_captions,
                   save_intermediate, composeVars,
                   researchVars>>

\* Step 5: captions unless --no-captions, compositor.compose_video, the
\* temporary directory removed unless --save-intermediate, and the end
ComposeVideo ==
    /\ pc = "imaged"
    /\ pc' = "exit"
    /\ exit_code' = 0
    /\ log' = log
              \o (IF no_captions THEN << >> ELSE <<"generate_captions_from_script">>)
              \o <<"compose_video">>
              \o (IF save_intermediate THEN << >> ELSE <<"rmtree">>)
    /\ UNCHANGED <<laterVars, timingVars, strict_mode, script, details, checkerVars, check_calls,
                   research, tts_engine, image_source, no_captions,
                   save_intermediate, composeVars,
                   researchVars>>

\* `except Exception`: the step that comes next raised; sys.exit(1)
StepRaises ==
    /\ \/ pc \in {"start", "parsed", "voiced", "timed", "imaged"}
       \/ pc = "checked" /\ details.is_safe
    /\ pc' = "exit"
    /\ exit_code' = 1
    /\ log' = Append(log, "except")
    /\ UNCHANGED <<laterVars, timingVars, strict_mode, script, details, checkerVars, check_calls,
                   research, tts_engine, image_source, no_captions,
                   save_intermediate, composeVars,
                   researchVars>>

PipeNext ==
    \/ ParseInput
    \/ GenerateScript
    \/ SafetyCheck
    \/ SafetyAbort
    \/ GenerateVoiceover
    \/ GenerateSceneTimings
    \/ GenerateImages
    \/ ComposeVideo
    \/ StepRaises

Spec == PipeInit /\ [][PipeNext]_vars

----------------------------------------------------------------------------
(* Properties of the generate command *)

\* C1: no rendering step starts unless check_script has returned
\* overall_safe = true for the run's script before; when it returns false the
\* run ends in a failure exit and no rendering step follows.
C1_NoRenderingBeforeSafePass ==
    /\ \A i \in DOMAIN log :
          log[i] \in RenderSteps =>
              /\ \E j \in 1..(i - 1) : log[j] = "check_script"
              /\ details.is_safe
    /\ (check_calls > 0 /\ ~details.is_safe) =>
          /\ \A i \in DOMAIN log : log[i] \notin RenderSteps
          /\ pc \in {"checked", "exit"}
          /\ pc = "exit" => exit_code = 1

\* a checked, safe script reached the video step
C1_Witness ==
    /\ pc = "exit"
    /\ exit_code = 0
    /\ details.is_safe
    /\ Len(script.scenes) = 1
    /\ \E i \in DOMAIN log : log[i] = "compose_video"

\* C2: in every run the script is evaluated by check_script exactly once;
\* the report of a failed script is formatted from the result already there.
C2_CheckedExactlyOnce ==
    /\ check_calls <= 1
    /\ (pc = "exit" /\ \E i \in DOMAIN log : log[i] = "check_script") =>
          check_calls = 1

----------------------------------------------------------------------------
(* Script composition: ScriptGenerator (llm_generator.py) and
   ResearchScriptGenerator (research_script_generator.py).

   Durations are counted in ticks, Unit ticks to the second, so that the
   quotient (target_length - 3) / num_scenes is a whole number of ticks for
   every num_scenes in 5..10.  Rounding of floating-point additions is not
   modelled. *)

Unit == 5 * 7 * 8 * 9

Min(a, b) == IF a < b THEN a ELSE b

Max(a, b) == IF a > b THEN a ELSE b

\* t[:n]
Take(t, n) == SubSeq(t, 1, Min(n, Len(t)))

\* str.upper()
upper(t) ==
    [i \in 1..Len(t) |->
        IF \E k \in 1..26 : LowerCase[k] = t[i]
        THEN UpperCase[CHOOSE k \in 1..26 : LowerCase[k] = t[i]]
        ELSE t[i]]

\* sum(s['duration'] for s in scenes)
RECURSIVE SumDurations(_)
SumDurations(scenes) ==
    IF scenes = << >> THEN 0
    ELSE scenes[1].duration + SumDurations(Tail(scenes))

\* ScriptGenerator._generate_mock_script
generate_mock_script(data) ==
    LET title == data.title
        key_points == data.key_points
        hook == [text |-> <<"W","a","i","t",".",".","."," ","d","i","d"," ","y","o","u"," ","k","n","o","w"," ","a","b","o","u","t"," ">> \o title \o <<"?">>,
                 duration |-> 2 * Unit,
                 visual_prompt |-> <<"Eye-catching visual related to ", title,
                                     ", vibrant colors, high contrast">>,
                 text_overlay |-> <<"W","A","I","T","!">>]
        time_per_scene ==
            Max(4, (data.target_length - 2) \div Max(Len(key_points), 5))
        used == Take(key_points, 6)
        point_scenes ==
            [i \in 1..Len(used) |->
                [narration |-> Take(used[i], 80),
                 duration |-> time_per_scene * Unit,
                 visual_prompt |-> <<"Visual representation of: ", used[i],
                                     ", cinematic, vibrant">>,
                 text_overlay |-> Take(used[i], 50)]]
        cta == [narration |-> <<"F","o","l","l","o","w"," ","f","o","r"," ","m","o","r","e"," ","i","n","s","i","g","h","t","s","!">>,
                duration |-> 3 * Unit,
                visual_prompt |-> <<"Call to action visual, engaging, colorful">>,
                text_overlay |-> <<"F","O","L","L","O","W"," ","F","O","R"," ","M","O","R","E","!">>]
        scenes == IF Len(point_scenes) < 5 THEN Append(point_scenes, cta)
                  ELSE point_scenes
    IN  [hook |-> hook, scenes |-> scenes,
         total_duration |-> hook.duration + SumDurations(scenes)]

\* a duration the text-generation model wrote into its JSON, or left out
LlmDurations(ds) ==
    {[has_duration |-> FALSE, duration |-> 0]}
        \cup {[has_duration |-> TRUE, duration |-> d] : d \in ds}

\* the JSON objects the text-generation model may answer with: the hook and
\* the scene list may be missing, any duration may be missing, and the model
\* may state a total_duration of its own
LlmObjects ==
    [has_hook : BOOLEAN,
     hook : LlmDurations({2 * Unit, 3 * Unit}),
     has_scenes : BOOLEAN,
     scenes : SeqsUpTo(LlmDurations({4 * Unit, 11 * (Unit \div 2)}), MaxLlmScenes),
     has_total : BOOLEAN,
     total_duration : {60 * Unit}]

NoObject ==
    [has_hook |-> FALSE, hook |-> [has_duration |-> FALSE, duration |-> 0],
     has_scenes |-> FALSE, scenes |-> << >>,
     has_total |-> FALSE, total_duration |-> 60 * Unit]

\* what generate(model, tokenizer, prompt) does: the model is absent, the call
\* raises, the text holds no braces, the braces hold no JSON, or they hold a
\* JSON object
LlmOutcomes ==
    {[kind |-> k, json |-> NoObject] : k \in {"absent", "raises", "no_json", "bad_json"}}
        \cup {[kind |-> "object", json |-> j] :
                  j \in {o \in LlmObjects : /\ ~o.has_hook => ~o.hook.has_duration
                                            /\ ~o.has_scenes => o.scenes = << >>}}

\* the statement of the total in the parsed script is the model's own
ParsedTotal_declared(json, total) ==
    IF json.has_total THEN json.total_duration ELSE total

\* script['total_duration'] = total
ParsedTotal(json, total) == total

\* total += scene['duration'], scene after scene
RECURSIVE TotalAfter(_, _)
TotalAfter(total, scenes) ==
    IF scenes = << >> THEN total
    ELSE TotalAfter(total + scenes[1].duration, Tail(scenes))

\* ScriptGenerator._parse_response
parse_response(response, length) ==
    LET json == response.json
        \* script['hook']['duration'], script['scenes'], scene['duration']
        subscripts_ok ==
            /\ json.has_hook
            /\ json.hook.has_duration
            /\ json.has_scenes
            /\ \A i \in DOMAIN json.scenes : json.scenes[i].has_duration
        hook == [text |-> <<"L","L","M"," ","h","o","o","k">>, duration |-> json.hook.duration]
        scenes == [i \in DOMAIN json.scenes |->
                      [narration |-> <<"L","L","M"," ","s","c","e","n","e">>,
                       duration |-> json.scenes[i].duration]]
    IN  IF response.kind = "object" /\ subscripts_ok
        THEN [hook |-> hook, scenes |-> scenes,
              total_duration |->
                  ParsedTotal(json, TotalAfter(hook.duration, scenes))]
        ELSE generate_mock_script([title |-> <<"C","o","n","t","e","n","t">>, key_points |-> << >>,
                                   target_length |-> length])

\* ScriptGenerator.generate_script
generate_script(data, model) ==
    IF model.kind \in {"absent", "raises"}
    THEN generate_mock_script(data)
    ELSE parse_response(model, data.target_length)

\* the characters str.split() separates words at
Whitespace == {" ", "\t", "\n"}

\* topic.split() is not empty
HasWord(t) == \E i \in 1..Len(t) : t[i] \notin Whitespace

\* topic.split()[0], for a topic that has a word
FirstWord(t) ==
    LET a == CHOOSE i \in 1..Len(t) :
                 t[i] \notin Whitespace /\ \A j \in 1..(i - 1) : t[j] \in Whitespace
        b == CHOOSE i \in a..Len(t) :
                 /\ \A j \in a..i : t[j] \notin Whitespace
                 /\ i = Len(t) \/ t[i + 1] \in Whitespace
    IN  SubSeq(t, a, b)

\* the outcome of a call: the value returned, or the IndexError of
\* topic.split()[0] on a topic without a word
IndexError == [raised |-> TRUE, value |-> << >>]

Return(v) == [raised |-> FALSE, value |-> v]

\* min(hooks, key=len): the first of the shortest
ShortestFirst(hooks) ==
    hooks[CHOOSE i \in DOMAIN hooks :
              /\ \A j \in 1..(i - 1) : Len(hooks[j]) > Len(hooks[i])
              /\ \A j \in DOMAIN hooks : Len(hooks[j]) >= Len(hooks[i])]

\* ResearchScriptGenerator._make_hook_engaging, for a topic that has a word
make_hook_engaging(fact0, subject) ==
    LET fact == IF Len(fact0) > 100 THEN Take(fact0, 97) \o <<".",".",".">> ELSE fact0
    IN  ShortestFirst(<< <<"B","r","e","a","k","i","n","g",":"," ">> \o Take(fact, 60),
                         <<"Y","o","u"," ","w","o","n","'","t"," ","b","e","l","i","e","v","e"," ","t","h","i","s"," ","a","b","o","u","t"," ">> \o FirstWord(subject) \o <<".",".",".">>,
                         <<"T","h","i","s"," ","c","h","a","n","g","e","s"," ","e","v","e","r","y","t","h","i","n","g",":"," ">> \o Take(fact, 50),
                         IF Len(fact) < 60 THEN fact ELSE Take(fact, 57) \o <<".",".",".">> >>)

\* ResearchScriptGenerator._create_hook
create_hook(found) ==
    LET key_facts == found.key_facts
        first5 == Take(key_facts, 5)
        HookMarkers ==
            << <<"%">>, <<"$">>, <<"m","i","l","l","i","o","n">>, <<"b","i","l","l","i","o","n">>, <<"f","i","r","s","t">>, <<"b","r","e","a","k","i","n","g">> >>
        marked(fact) == \E m \in DOMAIN HookMarkers : Contains(HookMarkers[m], fact)
        best_fact ==
            IF \E i \in DOMAIN first5 : marked(first5[i])
            THEN first5[CHOOSE i \in DOMAIN first5 :
                            marked(first5[i]) /\ \A j \in 1..(i - 1) : ~marked(first5[j])]
            ELSE key_facts[1]
        hook_text ==
            IF key_facts # << >> THEN make_hook_engaging(best_fact, found.topic)
            ELSE <<"W","h","a","t","'","s"," ","r","e","a","l","l","y"," ","h","a","p","p","e","n","i","n","g"," ","w","i","t","h"," ">> \o found.topic \o <<"?">>
        visual == IF found.image_keywords # << >> THEN found.image_keywords[1]
                  ELSE found.topic
    IN  IF key_facts # << >> /\ ~HasWord(found.topic) THEN IndexError
        ELSE Return([text |-> hook_text,
                     duration |-> 3 * Unit,
                     visual_prompt |-> <<"B","r","e","a","k","i","n","g"," ","n","e","w","s"," ","s","t","y","l","e",","," ">> \o visual
                                         \o <<","," ","d","r","a","m","a","t","i","c"," ","l","i","g","h","t","i","n","g",","," ","n","e","w","s"," ","g","r","a","p","h","i","c">>,
                     text_overlay |-> upper(Take(hook_text, 30))])

\* ResearchScriptGenerator._fact_to_visual; proper_nouns[0] is the first
\* match of \b[A-Z][a-z]+(?:\s+[A-Z][a-z]+)*\b in the fact
fact_to_visual(fact, found) ==
    LET LowerSet == Range(LowerCase)
        RECURSIVE run(_, _)
        run(cls, pos) == IF pos > Len(fact) THEN 0
                         ELSE IF fact[pos] \notin cls THEN 0
                         ELSE 1 + run(cls, pos + 1)
        boundary(pos) == pos > Len(fact) \/ fact[pos] \notin WordChars
        \* the position after [A-Z][a-z]+(?:\s+[A-Z][a-z]+)*\b from pos on, 0
        \* when it does not match there
        RECURSIVE noun_end(_)
        noun_end(pos) ==
            IF pos > Len(fact) THEN 0
            ELSE IF fact[pos] \notin UpperSet \/ run(LowerSet, pos + 1) = 0 THEN 0
            ELSE LET end == pos + 1 + run(LowerSet, pos + 1)
                     space == run(Whitespace, end)
                     more == IF space = 0 THEN 0 ELSE noun_end(end + space)
                 IN  IF more # 0 THEN more
                     ELSE IF boundary(end) THEN end
                     ELSE 0
        starts == {pos \in 1..Len(fact) :
                      /\ pos = 1 \/ fact[pos - 1] \notin WordChars
                      /\ noun_end(pos) # 0}
        first == CHOOSE pos \in starts : \A other \in starts : pos <= other
        base_visual ==
            CASE found.category = "politics" -> <<"g","o","v","e","r","n","m","e","n","t"," ","b","u","i","l","d","i","n","g",","," ","o","f","f","i","c","i","a","l"," ","s","e","t","t","i","n","g",","," ","p","r","e","s","s"," ","c","o","n","f","e","r","e","n","c","e">>
              [] found.category = "economy" -> <<"f","i","n","a","n","c","i","a","l"," ","c","h","a","r","t","s",","," ","m","o","n","e","y",","," ","b","u","s","i","n","e","s","s"," ","m","e","e","t","i","n","g">>
              [] found.category = "military" -> <<"m","i","l","i","t","a","r","y"," ","p","e","r","s","o","n","n","e","l",","," ","d","e","f","e","n","s","e"," ","e","q","u","i","p","m","e","n","t",","," ","s","e","c","u","r","i","t","y">>
              [] found.category = "human_rights" -> <<"p","e","o","p","l","e"," ","g","a","t","h","e","r","i","n","g",","," ","p","r","o","t","e","s","t",","," ","c","o","m","m","u","n","i","t","y">>
              [] found.category = "international" -> <<"w","o","r","l","d"," ","m","a","p",","," ","d","i","p","l","o","m","a","t","i","c"," ","m","e","e","t","i","n","g",","," ","f","l","a","g","s">>
              [] found.category = "technology" -> <<"m","o","d","e","r","n"," ","t","e","c","h","n","o","l","o","g","y",","," ","d","i","g","i","t","a","l"," ","i","n","t","e","r","f","a","c","e",","," ","i","n","n","o","v","a","t","i","o","n">>
              [] OTHER -> <<"n","e","w","s"," ","b","r","o","a","d","c","a","s","t",","," ","p","r","o","f","e","s","s","i","o","n","a","l">>
    IN  IF starts # {}
        THEN SubSeq(fact, first, noun_end(first) - 1) \o <<" ","r","e","l","a","t","e","d"," ","i","m","a","g","e","r","y",","," ">>
                 \o base_visual \o <<","," ","h","i","g","h"," ","q","u","a","l","i","t","y"," ","p","h","o","t","o">>
        ELSE IF found.image_keywords # << >>
        THEN found.image_keywords[1] \o <<","," ">> \o base_visual \o <<","," ","p","r","o","f","e","s","s","i","o","n","a","l"," ","p","h","o","t","o">>
        ELSE base_visual \o <<","," ","n","e","w","s"," ","s","t","y","l","e",","," ","h","i","g","h"," ","q","u","a","l","i","t","y">>

\* a scene for every key fact, however many there are
create_scenes_every_fact(found, length) ==
    LET num_scenes == Max(5, Min(10, length \div 6))
        time_per_scene == ((length - 3) * Unit) \div num_scenes
        fact_scenes ==
            [i \in 1..Len(found.key_facts) |->
                [narration |-> [call |-> "_fact_to_narration", fact |-> found.key_facts[i]],
                 duration |-> time_per_scene,
                 visual_prompt |-> fact_to_visual(found.key_facts[i], found),
                 text_overlay |-> [call |-> "_create_overlay", fact |-> found.key_facts[i]],
                 fact_source |-> <<"Research fact #", i>>]]
    IN  IF ~HasWord(found.topic) THEN IndexError
        ELSE Return(Append(fact_scenes,
                 [narration |-> <<"F","o","l","l","o","w"," ","f","o","r"," ","m","o","r","e"," ","u","p","d","a","t","e","s"," ","o","n"," ">> \o FirstWord(found.topic) \o <<"!">>,
                  duration |-> 3 * Unit,
                  visual_prompt |-> <<"S","o","c","i","a","l"," ","m","e","d","i","a"," ","e","n","g","a","g","e","m","e","n","t",","," ","f","o","l","l","o","w"," ","b","u","t","t","o","n",","," ","n","o","t","i","f","i","c","a","t","i","o","n"," ","b","e","l","l",","," ","c","o","l","o","r","f","u","l">>,
                  text_overlay |-> <<"F","O","L","L","O","W"," ","F","O","R"," ","M","O","R","E","!">>,
                  fact_source |-> <<"Call to action">>]))

\* ResearchScriptGenerator._create_scenes; the narration and the overlay of a
\* fact scene are kept as the call that computes them
create_scenes(found, length) ==
    LET num_scenes == Max(5, Min(10, length \div 6))
        time_per_scene == ((length - 3) * Unit) \div num_scenes
        facts_to_use == Take(found.key_facts, num_scenes - 1)
        fact_scenes ==
            [i \in 1..Len(facts_to_use) |->
                [narration |-> [call |-> "_fact_to_narration", fact |-> facts_to_use[i]],
                 duration |-> time_per_scene,
                 visual_prompt |-> fact_to_visual(facts_to_use[i], found),
                 text_overlay |-> [call |-> "_create_overlay", fact |-> facts_to_use[i]],
                 fact_source |-> <<"Research fact #", i>>]]
    IN  IF ~HasWord(found.topic) THEN IndexError
        ELSE Return(Append(fact_scenes,
                 [narration |-> <<"F","o","l","l","o","w"," ","f","o","r"," ","m","o","r","e"," ","u","p","d","a","t","e","s"," ","o","n"," ">>
                                    \o FirstWord(found.topic) \o <<"!">>,
                  duration |-> 3 * Unit,
                  visual_prompt |-> <<"S","o","c","i","a","l"," ","m","e","d","i","a"," ","e","n","g","a","g","e","m","e","n","t",","," ","f","o","l","l","o","w"," ","b","u","t","t","o","n",","," ","n","o","t","i","f","i","c","a","t","i","o","n"," ","b","e","l","l",","," ","c","o","l","o","r","f","u","l">>,
                  text_overlay |-> <<"F","O","L","L","O","W"," ","F","O","R"," ","M","O","R","E","!">>,
                  fact_source |-> <<"Call to action">>]))

\* ResearchScriptGenerator._generate_structured_script
generate_structured_script(found, length) ==
    LET hook == create_hook(found)
        scenes == create_scenes(found, length)
    IN  IF hook.raised \/ scenes.raised THEN IndexError
        ELSE Return([hook |-> hook.value, scenes |-> scenes.value,
                     total_duration |->
                         hook.value.duration + SumDurations(scenes.value),
                     topic |-> found.topic,
                     category |-> found.category])

\* d.get('duration', default)
DurationOr(d, default) == IF d.has_duration THEN d.duration ELSE default

\* ResearchScriptGenerator._parse_response
research_parse_response(response, length, found) ==
    LET json == response.json
        hook == IF json.has_hook
                THEN Return([text |-> <<"L","L","M"," ","h","o","o","k">>,
                             duration |-> DurationOr(json.hook, 3 * Unit)])
                ELSE create_hook(found)
        scenes == IF json.has_scenes /\ Len(json.scenes) >= 3
                  THEN Return([i \in DOMAIN json.scenes |->
                                  [narration |-> <<"L","L","M"," ","s","c","e","n","e">>,
                                   duration |-> DurationOr(json.scenes[i], 5 * Unit)]])
                  ELSE create_scenes(found, length)
    IN  IF response.kind = "object" /\ ~hook.raised /\ ~scenes.raised
        THEN Return([hook |-> hook.value, scenes |-> scenes.value,
                     total_duration |->
                         ParsedTotal(json, TotalAfter(hook.value.duration, scenes.value))])
        ELSE generate_structured_script(found, length)

\* ResearchScriptGenerator._generate_from_research
generate_from_research(found, length, model) ==
    IF model.kind \in {"absent", "raises"}
    THEN generate_structured_script(found, length)
    ELSE LET parsed == research_parse_response(model, length, found)
         IN  IF parsed.raised THEN generate_structured_script(found, length)
             ELSE parsed

\* d[key] = value
With(d, key, value) ==
    [k \in DOMAIN d \cup {key} |-> IF k = key THEN value ELSE d[k]]

\* unit.get('visual_prompt', '')
PromptOf(unit) ==
    IF "visual_prompt" \in DOMAIN unit THEN unit.visual_prompt ELSE << >>

\* ResearchScriptGenerator._extract_search_terms: list(set(terms))[:5], kept
\* as the call that computes it
extract_search_terms(visual_prompt, found) ==
    [call |-> "_extract_search_terms", visual_prompt |-> visual_prompt]

\* the body of the loop of _enhance_visual_prompts for scene number i
\* (counted from 1)
EnhancedScene(scene, i, found) ==
    LET image_keywords == found.image_keywords
        current_prompt == PromptOf(scene)
        prompted ==
            IF i <= Len(image_keywords)
            THEN IF ~Contains(lower(image_keywords[i]), lower(current_prompt))
                 THEN With(scene, "visual_prompt",
                           image_keywords[i] \o <<","," ">> \o current_prompt)
                 ELSE scene
            ELSE scene
    IN  With(prompted, "image_search_keywords",
             extract_search_terms(PromptOf(prompted), found))

\* only the scenes that have a keyword are kept
enhance_scenes_with_keyword(s, found) ==
    [s EXCEPT !.scenes = [i \in 1..Min(Len(s.scenes), Len(found.image_keywords)) |->
                              EnhancedScene(s.scenes[i], i, found)],
              !.hook = With(s.hook, "image_search_keywords",
                            extract_search_terms(PromptOf(s.hook), found))]

\* ResearchScriptGenerator._enhance_visual_prompts
enhance_visual_prompts(s, found) ==
    [s EXCEPT !.scenes = [i \in DOMAIN s.scenes |-> EnhancedScene(s.scenes[i], i, found)],
              !.hook = With(s.hook, "image_search_keywords",
                            extract_search_terms(PromptOf(s.hook), found))]

\* generate_script_from_topic, step 3: the sources, the summary and the
\* category of the research are added when include_sources
with_sources(s, found, include_sources) ==
    IF include_sources
    THEN With(With(With(s, "sources", found.sources),
                   "research_summary", found.summary), "category", found.category)
    ELSE s

\* the i-th key point of a parsed input; the second is longer than the 80
\* characters a narration keeps
Point(i) ==
    IF i = 2 THEN [j \in 1..85 |-> "x"] ELSE <<"P","o","i","n","t"," ">> \o <<LowerCase[i]>>

\* parsed inputs of ScriptGenerator.generate_script
InputData ==
    [title : {<<"A","I"," ","n","e","w","s">>, << >>},
     key_points : {[i \in 1..n |-> Point(i)] : n \in 0..MaxKeyPoints},
     target_length : 1..MaxTarget]

\* the i-th fact of a research result; a marked one holds a percentage
Fact(i, marked) ==
    <<"F","a","c","t"," ">> \o <<LowerCase[i]>> \o (IF marked THEN <<" ","i","s"," ","u","p"," ","5","%">> ELSE << >>)

\* research results handed to _generate_from_research: up to MaxFacts facts,
\* none or one of them marked, a topic that may be empty, and image keywords
\* that are or are not in the visual prompts of the scenes
ResearchResults ==
    [topic : {<<"A","I"," ","n","e","w","s">>, << >>},
     key_facts : {[i \in 1..n |-> Fact(i, i = k)] :
                     n \in 0..MaxFacts, k \in {0, 1, 3, 6}},
     image_keywords : {<< >>, <<<<"n","e","w","s">>, <<"F","a","c","t">>>>, <<<<"M","a","r","s">>>>},
     category : {"general"},
     summary : {<<"F","a","c","t"," ","a">>},
     sources : {<<[title |-> <<"A","I">>, url |-> <<"a">>, snippet |-> <<"n","e","w"," ","v","o","t","e">>,
                   published_date |-> "None", domain |-> <<"a">>]>>}]

ComposeInit ==
    /\ LaterIdle
    /\ TimingIdle
    /\ strict_mode = TRUE
    /\ CheckerIdle
    /\ PipeIdle
    /\ script = NoScript
    /\ details = NoDetails
    /\ composed = "no"
    /\ ResearchIdle
    /\ \/ /\ path = "simple"
          /\ research_result = << >>
          /\ target_length = 0
          /\ \/ llm \in LlmOutcomes /\ llm.kind # "object" /\ input_data \in InputData
             \/ /\ llm \in LlmOutcomes /\ llm.kind = "object"
                /\ input_data \in {d \in InputData :
                                      /\ d.target_length = 30
                                      /\ Len(d.key_points) = 3}
       \/ /\ path = "research"
          /\ input_data = << >>
          /\ \/ /\ llm \in LlmOutcomes /\ llm.kind # "object"
                /\ research_result \in ResearchResults
                /\ target_length \in 1..MaxTarget
             \/ /\ llm \in LlmOutcomes /\ llm.kind = "object"
                /\ research_result \in {r \in ResearchResults : Len(r.key_facts) = 2}
                /\ target_length = 30

\* ScriptGenerator.generate_script(input_data)
ComposeSimple ==
    /\ path = "simple"
    /\ composed = "no"
    /\ script' = generate_script(input_data, llm)
    /\ composed' = "returned"
    /\ UNCHANGED <<laterVars, timingVars, strict_mode, details, checkerVars, pipeVars, path, llm,
                   input_data, research_result, target_length,
                   researchVars>>

\* ResearchScriptGenerator._generate_from_research(research, target_length, style)
ComposeResearch ==
    /\ path = "research"
    /\ composed = "no"
    /\ LET r == generate_from_research(research_result, target_length, llm)
       IN  /\ script' = (IF r.raised THEN NoScript ELSE r.value)
           /\ composed' = (IF r.raised THEN "raised" ELSE "returned")
    /\ UNCHANGED <<laterVars, timingVars, strict_mode, details, checkerVars, pipeVars, path, llm,
                   input_data, research_result, target_length,
                   researchVars>>

\* generate_script_from_topic, steps 3 and 4: the sources are added and the
\* visual prompts enhanced
EnhanceScript ==
    /\ path = "research"
    /\ composed = "returned"
    /\ \E include_sources \in BOOLEAN :
          script' = enhance_visual_prompts(
                        with_sources(script, research_result, include_sources),
                        research_result)
    /\ composed' = "enhanced"
    /\ UNCHANGED <<laterVars, timingVars, strict_mode, details, checkerVars, pipeVars, path, llm,
                   input_data, research_result, target_length,
                   researchVars>>

ComposeNext == ComposeSimple \/ ComposeResearch \/ EnhanceScript

SpecCompose == ComposeInit /\ [][ComposeNext]_vars

----------------------------------------------------------------------------
(* Properties of script composition *)

\* the script returned is one a deterministic builder makes: on the simple
\* path from the input or from the parser's stand-in input, on the research
\* path from the research result
FromBuilder ==
    IF path = "simple"
    THEN \/ script = generate_mock_script(input_data)
         \/ script = parse_response([kind |-> "no_json", json |-> NoObject],
                                     input_data.target_length)
    ELSE LET built == generate_structured_script(research_result, target_length)
         IN  ~built.raised /\ script = built.value

C7_AlwaysWellFormed ==
    composed # "no" =>
        /\ composed \in {"returned", "enhanced"}
        /\ Len(script.scenes) >= 3
        /\ (\/ llm.kind # "object"
            \/ ~llm.json.has_hook
            \/ ~llm.json.has_scenes
            \/ Len(llm.json.scenes) < 3) => FromBuilder

----------------------------------------------------------------------------
(* WebResearcher (web_researcher.py).

   A text (page content or search snippet) is the sequence of its
   characters; the sentences and the date matches are found in it as the
   regular expressions of the code find them.  The summary, the related
   topics, the image keywords and the time stamp of a ResearchResult are not
   modelled. *)

\* research_topic(topic, max_sources=8)
DefaultMaxSources == 8

\* for result in search_results[:6]
FetchLimit == 6

\* scored_facts[:15]
MaxKeyFacts == 15

\* unique_events[:8]
MaxEvents == 8

\* the snippet a result page shows for a URL; the text of a snippet is taken
\* as it stands in the page, runs of blanks included
SnippetOf(url) ==
    IF url = "a" THEN <<"n","e","w"," ","v","o","t","e">>
    ELSE IF url = "b" THEN <<"U","N"," ","d","a","t","a">>
    ELSE IF url = "s1" THEN <<"T","h","e"," "," ","b","o","a","r","d"," "," "," ","s","a","i","d"," "," "," "," ","s","o"," "," "," "," "," ","i","n"," "," "," "," "," "," ","2","0","2","4"," "," "," "," "," "," "," ","a","g","a","i","n">>
    ELSE << >>

\* the i-th of the numbered sentences of the page "f2"
FactSentence(i) ==
    <<UpperCase[i]>> \o
        (IF i % 3 = 0 THEN <<" ","r","e","p","o","r","t","e","d"," ","t","h","a","t"," ","A","I"," ","n","e","w","s"," ","g","r","e","w"," ","5","%"," ","i","n"," ","a"," ","y","e","a","r"," ","h","e","r","e">>
         ELSE IF i % 3 = 1 THEN <<" ","r","e","p","o","r","t","e","d"," ","t","h","e"," ","n","e","w","s"," ","i","n","d","e","x"," ","a","t"," ","5","%"," ","f","o","r"," ","t","h","e"," ","y","e","a","r">>
         ELSE <<" ","r","e","p","o","r","t","e","d"," ","t","h","a","t"," ","t","h","e"," ","i","n","d","e","x"," ","g","r","e","w"," ","5","%"," ","i","n"," ","t","h","e"," ","y","e","a","r">>)

\* the content extracted from the page at a URL: the text of the page with
\* every run of blanks collapsed (re.sub(r'\s+', ' ', article_content))
PageOf(url) ==
    LET RECURSIVE Numbered(_)
        Numbered(n) == IF n = 0 THEN << >>
                       ELSE Numbered(n - 1) \o (IF n > 1 THEN <<" ">> ELSE << >>)
                                \o FactSentence(n) \o <<".">>
        RECURSIVE AndOn(_)
        AndOn(n) == IF n = 0 THEN << >> ELSE <<" ","a","n","d"," ","o","n">> \o AndOn(n - 1)
        panel == <<"T","h","e"," ","p","a","n","e","l"," ","c","o","n","f","i","r","m","e","d"," ","t","h","a","t"," ","t","h","e"," ","r","e","v","i","e","w"," ","o","f"," ","t","h","e"," ","r","u","l","e","s"," ","f","o","r"," ","t","h","e"," ","u","s","e"," ","o","f"," ","s","u","c","h"," ","s","y","s","t","e","m","s"," ","i","n"," ","a","l","l"," ","t","h","e"," ","p","u","b","l","i","c"," ","o","f","f","i","c","e","s">>
    IN  IF url = "a" THEN <<"E","l","e","c","t","i","o","n"," ","v","o","t","e">>
        ELSE IF url = "f1"
        THEN <<"E","x","p","o","r","t","s"," ","o","f"," ","t","h","e"," ","b","l","o","c"," ","g","r","e","w"," ","b","y"," ","5","%"," ","l","a","s","t"," ","t","e","r","m","."," ">>
             \o <<"E","x","p","o","r","t","s"," ","o","f"," ","t","h","e"," ","b","l","o","c"," ","g","r","e","w"," ","b","y"," ","1","5","%"," ","l","a","s","t"," ","t","e","r","m","!"," ">>
             \o <<"T","h","e"," ","c","o","m","m","i","t","t","e","e"," ","m","e","t"," ","t","o"," ","d","i","s","c","u","s","s"," ","t","h","e"," ","m","a","t","t","e","r"," ","a","t"," ","l","e","n","g","t","h","?"," ">>
             \o <<"T","h","e"," ","M","i","n","i","s","t","e","r"," ","S","A","I","D"," ","t","h","e"," ","b","u","d","g","e","t"," ","w","a","s"," ","c","u","t"," ","b","y"," ","$","4","0"," ","m","i","l","l","i","o","n","?","!"," ">>
             \o <<"t","h","e"," ","m","i","n","i","s","t","e","r"," ","s","a","i","d"," ","t","h","e"," ","b","u","d","g","e","t"," ","w","a","s"," ","c","u","t"," ","b","y"," ","$","4","0"," ","m","i","l","l","i","o","n","."," ">>
             \o <<"I","n"," ","2","0","2","4"," ","t","h","e"," ","l","i","s","t"," ","w","e","n","t"," ","o","n">> \o AndOn(40) \o <<".">>
        ELSE IF url = "f2" THEN Numbered(MaxKeyFacts + 2)
        ELSE IF url = "f3"
        THEN panel \o <<" ","w","i","l","l"," ","e","n","d"," ","i","n"," ","2","0","2","4","."," ">> \o panel \o <<" ","w","i","l","l"," ","e","n","d"," ","i","n"," ","2","0","2","5",".">>
        ELSE IF url = "d1"
        THEN <<"T","h","e"," ","c","o","u","n","c","i","l"," ","o","f"," ","t","h","e"," ","c","i","t","y"," ","m","e","t"," ","i","n"," ","t","h","e"," ","o","l","d"," ","h","a","l","l"," ","a","n","d"," ","v","o","t","e","d"," ","o","n"," ","M","o","n","d","a","y"," ","t","o"," ","f","u","n","d"," ","t","h","e"," ","n","e","w"," ","b","r","i","d","g","e"," ">>
             \o <<"o","v","e","r"," ","t","h","e"," ","r","i","v","e","r",","," ","a","n","d"," ","t","h","e"," ","w","o","r","k","s"," ","a","r","e"," ","s","e","t"," ","t","o"," ","s","t","a","r","t"," ","o","n"," ","M","a","y"," ","1",","," ","2","0","2","5"," ","w","h","e","n"," ","t","h","e"," ","c","o","n","t","r","a","c","t","s"," ">>
             \o <<"a","r","e"," ","s","i","g","n","e","d"," ","b","y"," ","a","l","l"," ","p","a","r","t","i","e","s"," ","i","n","v","o","l","v","e","d">>
        ELSE IF url = "d2"
        THEN <<"T","o","d","a","y"," ","a","n","d"," ","y","e","s","t","e","r","d","a","y"," ","t","h","e"," ","t","w","o"," ","s","i","d","e","s"," ","m","e","t"," ","f","o","r"," ","t","a","l","k","s",","," ","a","n","d"," ","t","h","e"," ","t","a","l","k","s"," ","w","e","n","t"," ","o","n"," ","1","/","1","5","/","2","0","2","5"," ","a","n","d"," ">>
             \o <<"l","a","s","t"," ","F","r","i","d","a","y"," ","w","i","t","h"," ","n","o"," ","r","e","s","u","l","t",","," ","s","o"," ","t","h","i","s"," ","w","e","e","k"," ","t","h","e"," ","p","a","n","e","l"," ","s","a","t"," ","o","n","c","e"," ","m","o","r","e",","," ","a","n","d"," ","l","a","s","t"," ","w","e","e","k"," ","i","t"," ">>
             \o <<"w","a","s"," ","a","g","r","e","e","d"," ","t","o"," ","m","e","e","t"," ","o","n"," ","J","u","n","e"," ","1","2"," ","2","0","2","4"," ","f","o","r"," ","a"," ","f","i","n","a","l"," ","r","o","u","n","d">>
        ELSE IF url = "d3"
        THEN <<"T","h","e"," ","t","e","a","m","s"," ","o","f"," ","t","h","e"," ","l","e","a","g","u","e"," ","p","l","a","y","e","d"," ","t","h","e"," ","l","a","s","t"," ","r","o","u","n","d"," ","o","f"," ","g","a","m","e","s"," ","o","n"," ","S","u","n","d","a","y",","," ","t","h","e"," ","c","u","p"," ","w","a","s"," ","h","a","n","d","e","d"," ">>
             \o <<"o","v","e","r"," ","o","n"," ","2","/","3","/","2","0","2","4",","," ","a","n","d"," ","a"," ","n","e","w"," ","s","e","a","s","o","n"," ","w","a","s"," ","s","e","t"," ","t","o"," ","o","p","e","n"," ","o","n"," ","M","a","r","c","h"," ","9",","," ","2","0","2","5"," ","i","n"," ","t","h","e"," ","n","o","r","t","h">>
        ELSE <<"p","a","g","e"," ">>

\* a .result element of a result page; one without a link has the URL ""
Element(u) == [title |-> <<"title of", u>>, url |-> u, snippet |-> SnippetOf(u)]

\* the entries appended for the .result elements that have a title and a URL
Entries(elements, news) ==
    LET valid == SelectSeq(elements, LAMBDA e : e.url # "")
    IN  [i \in DOMAIN valid |->
            [title |-> valid[i].title, url |-> valid[i].url,
             snippet |-> valid[i].snippet, is_news |-> news]]

\* WebResearcher._search_news: never raises, [] when the request fails
search_news(page, max_results) ==
    IF page.kind = "page" THEN Entries(Take(page.elements, max_results), TRUE)
    ELSE << >>

\* the first occurrence of every URL: the loop over results with seen_urls
RECURSIVE UniqueByUrl(_, _)
UniqueByUrl(results, seen_urls) ==
    IF results = << >> THEN << >>
    ELSE IF results[1].url \notin seen_urls
         THEN <<results[1]>> \o UniqueByUrl(Tail(results), seen_urls \cup {results[1].url})
         ELSE UniqueByUrl(Tail(results), seen_urls)

\* the truncation to max_results is missing
Truncate_none(results, max_results) == results

\* unique_results[:max_results]
Truncate(results, max_results) == Take(results, max_results)

\* WebResearcher._search_web
search_web(answers, max_results) ==
    LET plain == IF answers.plain.kind = "page"
                 THEN Entries(Take(answers.plain.elements, max_results), FALSE)
                 ELSE << >>
        news == search_news(answers.news, max_results \div 2)
    IN  Truncate(UniqueByUrl(plain \o news, {}), max_results)

\* the article _fetch_articles appends for a source: nothing when the site
\* answers with a status other than 200, the snippet as content when the
\* request raises (a timeout included), the page content otherwise
FetchedArticle(source, outcome) ==
    LET article(content) ==
            [title |-> source.title, url |-> source.url, snippet |-> source.snippet,
             content |-> content, domain |-> <<"domain of", source.url>>]
    IN  IF outcome = "ok" THEN << article(PageOf(source.url)) >>
        ELSE IF outcome = "raises" THEN << article(source.snippet) >>
        ELSE << >>

\* the categories and their keywords, in the order of the dict
categories ==
    << [name |-> "politics",
        keywords |-> << <<"p","r","e","s","i","d","e","n","t">>,
                      <<"g","o","v","e","r","n","m","e","n","t">>,
                      <<"e","l","e","c","t","i","o","n">>,
                      <<"c","o","n","g","r","e","s","s">>,
                      <<"s","e","n","a","t","e">>,
                      <<"m","i","n","i","s","t","e","r">>,
                      <<"d","i","p","l","o","m","a","t","i","c">>,
                      <<"p","o","l","i","c","y">>,
                      <<"l","e","g","i","s","l","a","t","i","o","n">>,
                      <<"v","o","t","e">> >>],
       [name |-> "economy",
        keywords |-> << <<"e","c","o","n","o","m","y">>,
                      <<"m","a","r","k","e","t">>,
                      <<"s","t","o","c","k">>,
                      <<"g","d","p">>,
                      <<"i","n","f","l","a","t","i","o","n">>,
                      <<"t","r","a","d","e">>,
                      <<"t","a","r","i","f","f">>,
                      <<"f","i","n","a","n","c","i","a","l">>,
                      <<"i","n","v","e","s","t","m","e","n","t">>,
                      <<"d","o","l","l","a","r">>,
                      <<"c","u","r","r","e","n","c","y">> >>],
       [name |-> "technology",
        keywords |-> << <<"a","i">>,
                      <<"a","r","t","i","f","i","c","i","a","l"," ","i","n","t","e","l","l","i","g","e","n","c","e">>,
                      <<"t","e","c","h">>,
                      <<"s","o","f","t","w","a","r","e">>,
                      <<"a","p","p">>,
                      <<"s","t","a","r","t","u","p">>,
                      <<"i","n","n","o","v","a","t","i","o","n">>,
                      <<"d","i","g","i","t","a","l">>,
                      <<"d","a","t","a">>,
                      <<"a","l","g","o","r","i","t","h","m">> >>],
       [name |-> "human_rights",
        keywords |-> << <<"h","u","m","a","n"," ","r","i","g","h","t","s">>,
                      <<"r","e","f","u","g","e","e">>,
                      <<"a","s","y","l","u","m">>,
                      <<"i","m","m","i","g","r","a","t","i","o","n">>,
                      <<"d","e","t","e","n","t","i","o","n">>,
                      <<"h","u","m","a","n","i","t","a","r","i","a","n">>,
                      <<"a","b","u","s","e">>,
                      <<"f","r","e","e","d","o","m">>,
                      <<"j","u","s","t","i","c","e">> >>],
       [name |-> "international",
        keywords |-> << <<"i","n","t","e","r","n","a","t","i","o","n","a","l">>,
                      <<"f","o","r","e","i","g","n">>,
                      <<"r","e","l","a","t","i","o","n","s">>,
                      <<"t","r","e","a","t","y">>,
                      <<"a","l","l","i","a","n","c","e">>,
                      <<"n","a","t","o">>,
                      <<"u","n">>,
                      <<"s","a","n","c","t","i","o","n","s">>,
                      <<"d","i","p","l","o","m","a","c","y">> >>],
       [name |-> "military",
        keywords |-> << <<"m","i","l","i","t","a","r","y">>,
                      <<"a","r","m","y">>,
                      <<"n","a","v","y">>,
                      <<"d","e","f","e","n","s","e">>,
                      <<"w","a","r">>,
                      <<"t","r","o","o","p","s">>,
                      <<"w","e","a","p","o","n","s">>,
                      <<"a","t","t","a","c","k">>,
                      <<"c","o","n","f","l","i","c","t">>,
                      <<"s","e","c","u","r","i","t","y">> >>],
       [name |-> "health",
        keywords |-> << <<"h","e","a","l","t","h">>,
                      <<"m","e","d","i","c","a","l">>,
                      <<"v","a","c","c","i","n","e">>,
                      <<"d","i","s","e","a","s","e">>,
                      <<"h","o","s","p","i","t","a","l">>,
                      <<"t","r","e","a","t","m","e","n","t">>,
                      <<"p","a","n","d","e","m","i","c">>,
                      <<"h","e","a","l","t","h","c","a","r","e">> >>],
       [name |-> "environment",
        keywords |-> << <<"c","l","i","m","a","t","e">>,
                      <<"e","n","v","i","r","o","n","m","e","n","t">>,
                      <<"p","o","l","l","u","t","i","o","n">>,
                      <<"c","a","r","b","o","n">>,
                      <<"r","e","n","e","w","a","b","l","e">>,
                      <<"s","u","s","t","a","i","n","a","b","i","l","i","t","y">>,
                      <<"e","m","i","s","s","i","o","n","s">> >>] >>

\* ' '.join([a['content'] + ' ' + a['snippet'] for a in articles])
RECURSIVE JoinContents(_)
JoinContents(arts) ==
    IF arts = << >> THEN << >>
    ELSE arts[1].content \o <<" ">> \o arts[1].snippet
             \o (IF Len(arts) > 1 THEN <<" ">> \o JoinContents(Tail(arts)) ELSE << >>)

\* scores[category] for the first n categories: the number of its keywords
\* found in the topic or in the content
RECURSIVE Scores(_, _, _)
Scores(n, topic_lower, content) ==
    IF n = 0 THEN << >>
    ELSE Append(Scores(n - 1, topic_lower, content),
                Cardinality({k \in DOMAIN categories[n].keywords :
                                \/ Contains(categories[n].keywords[k], topic_lower)
                                \/ Contains(categories[n].keywords[k], content)}))

\* the last category with a keyword found is taken, whatever its score
CategoryOf_last(scores) ==
    IF \E c \in DOMAIN scores : scores[c] > 0
    THEN categories[CHOOSE c \in DOMAIN scores :
                        scores[c] > 0 /\ \A d \in (c + 1)..Len(scores) : scores[d] = 0].name
    ELSE "general"

\* the category of the scores: max(scores, key=scores.get) is the first
\* category of the highest score, 'general' is returned when that is 0
CategoryOf(scores) ==
    LET best == CHOOSE c \in DOMAIN scores :
                    /\ \A d \in DOMAIN scores : scores[d] <= scores[c]
                    /\ \A d \in 1..(c - 1) : scores[d] < scores[c]
    IN  IF scores[best] > 0 THEN categories[best].name ELSE "general"

\* the topic string plays no part in the scores
categorize_topic_by_content(subject, arts) ==
    CHOOSE category \in
        {CategoryOf(scores) :
            scores \in {Scores(Len(categories), << >>, content) :
                           content \in {lower(JoinContents(arts))}}} : TRUE

\* WebResearcher._categorize_topic (the texts and the scores are bound as
\* the elements of one-element sets, which has them evaluated once)
categorize_topic(subject, arts) ==
    CHOOSE category \in
        {CategoryOf(scores) :
            scores \in {Scores(Len(categories), topic_lower, content) :
                           topic_lower \in {lower(subject)},
                           content \in {lower(JoinContents(arts))}}} : TRUE

\* article.get('content', '') or article.get('snippet', '')
ContentOrSnippet(article) ==
    IF article.content # << >> THEN article.content ELSE article.snippet

\* the printable characters in the order of their code points (the double
\* quote, the backslash and the backquote left out)
Ascii ==
    << " ", "!", "#", "$", "%", "&", "'", "(", ")", "*", "+", ",", "-", ".", "/",
       "0", "1", "2", "3", "4", "5", "6", "7", "8", "9", ":", ";", "<", "=", ">", "?",
       "@", "A", "B", "C", "D", "E", "F", "G", "H", "I", "J", "K", "L", "M", "N", "O",
       "P", "Q", "R", "S", "T", "U", "V", "W", "X", "Y", "Z", "[", "]", "^", "_",
       "a", "b", "c", "d", "e", "f", "g", "h", "i", "j", "k", "l", "m", "n", "o",
       "p", "q", "r", "s", "t", "u", "v", "w", "x", "y", "z", "{", "|", "}", "~" >>

\* x > y for two strings
StringGreater(x, y) ==
    LET Code(c) == CHOOSE i \in DOMAIN Ascii : Ascii[i] = c
    IN  \E k \in 1..Len(x) :
        /\ \A j \in 1..(k - 1) : j <= Len(y) /\ x[j] = y[j]
        /\ k > Len(y) \/ Code(x[k]) > Code(y[k])

\* topic.lower().split(), as a set
Words(t) ==
    {SubSeq(t, p[1], p[2]) :
        p \in {q \in (1..Len(t)) \X (1..Len(t)) :
                  /\ q[1] <= q[2]
                  /\ \A j \in q[1]..q[2] : t[j] \notin Whitespace
                  /\ q[1] = 1 \/ t[q[1] - 1] \in Whitespace
                  /\ q[2] = Len(t) \/ t[q[2] + 1] \in Whitespace}}

\* str.strip
strip(t) ==
    IF ~HasWord(t) THEN << >>
    ELSE SubSeq(t,
                CHOOSE i \in 1..Len(t) :
                    t[i] \notin Whitespace /\ \A j \in 1..(i - 1) : t[j] \in Whitespace,
                CHOOSE i \in 1..Len(t) :
                    t[i] \notin Whitespace /\ \A j \in (i + 1)..Len(t) : t[j] \in Whitespace)

\* re.sub(r'\s+', ' ', sentence).strip(): every run of blanks becomes one
\* space, the blanks at both ends are dropped
normalize(t) ==
    LET kept == SelectSeq([i \in DOMAIN t |-> i],
                          LAMBDA i : t[i] \notin Whitespace \/ i = 1 \/ t[i - 1] \notin Whitespace)
    IN  strip([k \in DOMAIN kept |-> IF t[kept[k]] \in Whitespace THEN " " ELSE t[kept[k]]])

\* re.split(r'[.!?]+', content)
RECURSIVE split(_)
split(content) ==
    LET Stops == {".", "!", "?"}
    IN  IF \A i \in DOMAIN content : content[i] \notin Stops THEN <<content>>
        ELSE LET a == CHOOSE i \in DOMAIN content :
                          content[i] \in Stops /\ \A j \in 1..(i - 1) : content[j] \notin Stops
                 b == CHOOSE i \in a..Len(content) :
                          /\ \A j \in a..i : content[j] \in Stops
                          /\ i = Len(content) \/ content[i + 1] \notin Stops
             IN  <<SubSeq(content, 1, a - 1)>> \o split(SubSeq(content, b + 1, Len(content)))

(* A regular expression is the sequence of the alternatives the engine tries
   in order; an alternative is a sequence of items, each a character class
   repeated min to max times (max -1: no limit) that takes as many characters
   as it can and gives them back one at a time. *)
Item(cls, min, max) == [cls |-> cls, min |-> min, max |-> max]

\* a literal under re.I
Literal(word) ==
    [i \in DOMAIN word |->
        Item({LowerChar(word[i])} \cup {u \in UpperSet : ToLower[u] = LowerChar(word[i])}, 1, 1)]

\* the number of characters from pos on, limit at most, that are in cls
RECURSIVE RunLength(_, _, _, _)
RunLength(cls, t, pos, limit) ==
    IF limit = 0 \/ pos > Len(t) THEN 0
    ELSE IF t[pos] \notin cls THEN 0
    ELSE 1 + RunLength(cls, t, pos + 1, limit - 1)

\* the position after the match of the items that starts at pos, 0 when
\* there is none
RECURSIVE MatchEnd(_, _, _)
MatchEnd(items, t, pos) ==
    IF items = << >> THEN pos
    ELSE LET fits == {n \in items[1].min..RunLength(items[1].cls, t, pos, items[1].max) :
                         MatchEnd(Tail(items), t, pos + n) # 0}
         IN  IF fits = {} THEN 0
             ELSE MatchEnd(Tail(items), t, pos + (CHOOSE n \in fits : \A k \in fits : k <= n))

\* the position after the match of the pattern that starts at pos: that of
\* its first alternative that matches there, 0 when none does
PatternEnd(pattern, t, pos) ==
    LET ends == [a \in DOMAIN pattern |-> MatchEnd(pattern[a], t, pos)]
    IN  IF \A a \in DOMAIN ends : ends[a] = 0 THEN 0
        ELSE ends[CHOOSE a \in DOMAIN ends : ends[a] # 0 /\ \A b \in 1..(a - 1) : ends[b] = 0]

\* re.search(pattern, sentence, re.I) finds a match
search(pattern, t) == \E pos \in 1..Len(t) : PatternEnd(pattern, t, pos) # 0

\* re.finditer(pattern, content, re.I) from position from on: the matches
\* from left to right, none overlapping the one before; start is the position
\* of the first character of a match and end the position after its last
RECURSIVE finditer(_, _, _)
finditer(pattern, t, from) ==
    IF \A pos \in from..Len(t) : PatternEnd(pattern, t, pos) = 0 THEN << >>
    ELSE LET start == CHOOSE pos \in from..Len(t) :
                          /\ PatternEnd(pattern, t, pos) # 0
                          /\ \A before \in from..(pos - 1) : PatternEnd(pattern, t, before) = 0
         IN  <<[start |-> start, end |-> PatternEnd(pattern, t, start)]>>
                 \o finditer(pattern, t, PatternEnd(pattern, t, start))

\* fact_indicators of _extract_facts
fact_indicators ==
    LET digit == Item(Digits, 1, 1)
        digits == Item(Digits, 1, -1)
        amount(word) == <<digits, Item({" "}, 1, 1)>> \o Literal(word)
    IN  << << <<digit, digit, digit, digit>> >>,
           << <<digits, Item({"%"}, 1, 1)>> >>,
           << <<Item({"$"}, 1, 1), digits>> >>,
           << amount(<<"m","i","l","l","i","o","n">>), amount(<<"b","i","l","l","i","o","n">>), amount(<<"t","h","o","u","s","a","n","d">>) >>,
           << Literal(<<"s","a","i","d">>) >>, << Literal(<<"a","n","n","o","u","n","c","e","d">>) >>,
           << Literal(<<"r","e","p","o","r","t","e","d">>) >>, << Literal(<<"a","c","c","o","r","d","i","n","g"," ","t","o">>) >>,
           << Literal(<<"c","o","n","f","i","r","m","e","d">>) >>, << Literal(<<"s","t","a","t","e","d">>) >>,
           << Literal(<<"d","e","c","l","a","r","e","d">>) >> >>

\* the test of _extract_facts on a stripped sentence: its length and a
\* factual indicator in it
IsFactLike(sentence) ==
    /\ Len(sentence) > 40
    /\ Len(sentence) < 300
    /\ \E p \in DOMAIN fact_indicators : search(fact_indicators[p], sentence)

\* the stripped sentences of all articles that pass the test, article after
\* article
RECURSIVE AllSentences(_)
AllSentences(arts) ==
    IF arts = << >> THEN << >>
    ELSE LET sentences == split(ContentOrSnippet(arts[1]))
         IN  SelectSeq([i \in DOMAIN sentences |-> strip(sentences[i])], IsFactLike)
                 \o AllSentences(Tail(arts))

\* the normalized fact of the first sentence of every key fact.lower()[:100]:
\* the loop with seen_facts
RECURSIVE UniqueFacts(_, _)
UniqueFacts(sentences, seen_facts) ==
    IF sentences = << >> THEN << >>
    ELSE LET fact == normalize(sentences[1])
             fact_key == Take(lower(fact), 100)
         IN  IF fact_key \notin seen_facts
             THEN <<fact>> \o UniqueFacts(Tail(sentences), seen_facts \cup {fact_key})
             ELSE UniqueFacts(Tail(sentences), seen_facts)

\* the facts stay in the order they were found in
SortedDescending_none(scored) == scored

\* scored_facts.sort(reverse=True): by score, then by the fact string,
\* both descending
RECURSIVE SortedDescending(_)
SortedDescending(scored) ==
    IF scored = << >> THEN << >>
    ELSE LET before(x, y) == \/ x.score > y.score
                             \/ x.score = y.score /\ StringGreater(x.fact, y.fact)
             top == CHOOSE i \in DOMAIN scored :
                        \A j \in DOMAIN scored : j = i \/ before(scored[i], scored[j])
         IN  <<scored[top]>> \o
             SortedDescending([k \in 1..(Len(scored) - 1) |->
                                  IF k < top THEN scored[k] ELSE scored[k + 1]])

\* WebResearcher._extract_facts
extract_facts(arts, subject) ==
    LET facts == UniqueFacts(AllSentences(arts), {})
        topic_words == Words(lower(subject))
        scored == [i \in DOMAIN facts |->
                      [score |-> Cardinality({w \in topic_words :
                                                 Contains(w, lower(facts[i]))}),
                       fact |-> facts[i]]]
        sorted == SortedDescending(scored)
    IN  [i \in 1..Min(MaxKeyFacts, Len(sorted)) |-> sorted[i].fact]

\* date_patterns of _build_timeline
date_patterns ==
    LET digit == Item(Digits, 1, 1)
        blanks == Item(Whitespace, 1, -1)
        day == Item(Digits, 1, 2)
        year == <<digit, digit, digit, digit>>
        slash == Item({"/"}, 1, 1)
        on == Literal(<<"o","n">>) \o <<blanks>>
        last == Literal(<<"l","a","s","t">>) \o <<blanks>>
        written == <<Item(WordChars, 1, -1), blanks, day, Item({","}, 0, 1), blanks>> \o year
        numeric == <<day, slash, day, slash>> \o year
        weekdays == << Literal(<<"m","o","n","d","a","y">>), Literal(<<"t","u","e","s","d","a","y">>), Literal(<<"w","e","d","n","e","s","d","a","y">>),
                       Literal(<<"t","h","u","r","s","d","a","y">>), Literal(<<"f","r","i","d","a","y">>), Literal(<<"s","a","t","u","r","d","a","y">>),
                       Literal(<<"s","u","n","d","a","y">>) >>
    IN  << << on \o written, written >>,
           << on \o numeric, numeric >>,
           [i \in DOMAIN weekdays |-> last \o weekdays[i]] \o weekdays,
           << Literal(<<"y","e","s","t","e","r","d","a","y">>), Literal(<<"t","o","d","a","y">>), Literal(<<"t","h","i","s"," ","w","e","e","k">>),
              Literal(<<"l","a","s","t"," ","w","e","e","k">>) >> >>

\* the events _build_timeline appends for one pattern in the content of one
\* article: a match with its context, when the context has more than 50
\* characters
EventsOf(pattern, content, domain) ==
    LET matches == finditer(pattern, content, 1)
        context(match) ==
            strip(SubSeq(content, Max(0, (match.start - 1) - 50) + 1,
                                  Min(Len(content), (match.end - 1) + 150)))
        found == SelectSeq(matches, LAMBDA match : Len(context(match)) > 50)
    IN  [i \in DOMAIN found |->
            [date |-> SubSeq(content, found[i].start, found[i].end - 1),
             description |-> context(found[i]),
             source |-> domain]]

\* the events of all articles: article after article, in each article
\* pattern after pattern, for each pattern the matches in text order
RECURSIVE AllEvents(_)
AllEvents(arts) ==
    IF arts = << >> THEN << >>
    ELSE LET of(p) == EventsOf(date_patterns[p], ContentOrSnippet(arts[1]), arts[1].domain)
         IN  of(1) \o of(2) \o of(3) \o of(4) \o AllEvents(Tail(arts))

\* the first event of every key description[:50]: the loop with seen
RECURSIVE UniqueEvents(_, _)
UniqueEvents(events, seen) ==
    IF events = << >> THEN << >>
    ELSE LET key == Take(events[1].description, 50)
         IN  IF key \notin seen
             THEN <<events[1]>> \o UniqueEvents(Tail(events), seen \cup {key})
             ELSE UniqueEvents(Tail(events), seen)

\* WebResearcher._build_timeline
build_timeline(arts) == Take(UniqueEvents(AllEvents(arts), {}), MaxEvents)

\* research_topic, steps 3 to 8 and the result
ResearchResult(subject, results, arts) ==
    [topic |-> subject,
     category |-> categorize_topic(subject, arts),
     key_facts |-> extract_facts(arts, subject),
     timeline |-> build_timeline(arts),
     sources |-> [i \in DOMAIN results |->
                     [title |-> results[i].title, url |-> results[i].url,
                      snippet |-> results[i].snippet, published_date |-> "None",
                      domain |-> <<"domain of", results[i].url>>]]]

\* the topics researched
Topics == {<<"A","I"," ","n","e","w","s">>, <<"E","l","e","c","t","i","o","n"," ","v","o","t","e">>, <<"c","a","t","s">>, <<"U","N"," ","d","a","t","a">>, << >>}

\* seven distinct URLs, one more than _fetch_articles goes through
ManyUrls == <<"u1", "u2", "u3", "u4", "u5", "u6", "u7">>

\* what a query to the search provider gives: the request raises, or a
\* result page of .result elements with URLs out of urls
Answers(urls, n) ==
    {[kind |-> "raises", elements |-> << >>]}
        \cup {[kind |-> "page", elements |-> e] :
                 e \in SeqsUpTo({Element(u) : u \in urls}, n)}

\* what fetching the page of each URL gives: "ok" (status 200),
\* "status" (another status) or "raises" (an exception, a timeout)
FetchAnswers(non_ok) ==
    {[u \in {"a", "b", "c"} \cup Range(ManyUrls) |->
         IF u = x[1] THEN o[1] ELSE IF u = x[2] THEN o[2] ELSE "ok"] :
         x \in ({"a", "b"} \cup Range(ManyUrls)) \X ({"a", "b"} \cup Range(ManyUrls)),
         o \in non_ok \X non_ok}

\* the URLs of the pages with sentences and dates in them
TextUrls == {"s1", "f1", "f2", "f3", "d1", "d2", "d3"}

\* the result lists over those pages
TextPages ==
    { <<"f1">>, <<"s1", "f2", "f1">>, <<"s1", "f3">>,
      <<"d1">>, <<"d3", "d1">>, <<"d1", "d2", "d3">> }

ResearchInit ==
    /\ LaterIdle
    /\ TimingIdle
    /\ strict_mode = TRUE
    /\ CheckerIdle
    /\ PipeIdle
    /\ ComposeIdle
    /\ script = NoScript
    /\ details = NoDetails
    /\ search_results = << >>
    /\ articles = << >>
    /\ fetch_i = 0
    /\ rpc = "start"
    /\ \/ \* the result pages vary
          /\ topic = <<"A","I"," ","n","e","w","s">>
          /\ max_sources \in 1..MaxSources
          /\ provider \in [plain : Answers({"", "a", "b"}, MaxPage),
                           news : Answers({"a", "c"}, MaxNews),
                           fetch : FetchAnswers({"ok"})]
       \/ \* the answers of the sites vary
          /\ topic = <<"A","I"," ","n","e","w","s">>
          /\ max_sources = DefaultMaxSources
          /\ provider \in
                [plain : {[kind |-> "page", elements |-> [i \in 1..n |-> Element(ManyUrls[i])]] :
                             n \in {2, Len(ManyUrls)}}
                         \cup {[kind |-> "page", elements |-> <<Element("a"), Element("b")>>]},
                 news : Answers({}, 0),
                 fetch : FetchAnswers({"ok", "status", "raises"})]
       \/ \* the topic varies
          /\ topic \in Topics
          /\ max_sources = DefaultMaxSources
          /\ provider \in [plain : Answers({"", "a"}, 1),
                           news : Answers({}, 0),
                           fetch : FetchAnswers({"ok"})]
       \/ \* the texts of the pages vary
          /\ topic = <<"A","I"," ","n","e","w","s">>
          /\ max_sources = DefaultMaxSources
          /\ provider \in
                [plain : {[kind |-> "page", elements |-> [i \in DOMAIN urls |-> Element(urls[i])]] :
                             urls \in TextPages},
                 news : {[kind |-> "raises", elements |-> << >>]},
                 fetch : {[u \in TextUrls |-> IF u = "s1" THEN outcome ELSE "ok"] :
                             outcome \in {"ok", "raises"}}]

\* research_topic, step 1: self._search_web(topic, max_sources)
SearchWeb ==
    /\ rpc = "start"
    /\ search_results' = search_web(provider, max_sources)
    /\ rpc' = "fetching"
    /\ UNCHANGED <<laterVars, timingVars, strict_mode, script, details, checkerVars, pipeVars, composeVars,
                   topic, max_sources, provider, articles, fetch_i>>

\* _fetch_articles: one pass of the loop over search_results[:6]
FetchArticle ==
    /\ rpc = "fetching"
    /\ fetch_i < Min(Len(search_results), FetchLimit)
    /\ LET source == search_results[fetch_i + 1]
       IN  articles' = articles \o FetchedArticle(source, provider.fetch[source.url])
    /\ fetch_i' = fetch_i + 1
    /\ UNCHANGED <<laterVars, timingVars, strict_mode, script, details, checkerVars, pipeVars, composeVars,
                   topic, max_sources, provider, search_results, rpc>>

\* research_topic, steps 3 to 8: the loop of _fetch_articles is over and the
\* ResearchResult is built
Analyze ==
    /\ rpc = "fetching"
    /\ fetch_i = Min(Len(search_results), FetchLimit)
    /\ research_result' = ResearchResult(topic, search_results, articles)
    /\ rpc' = "done"
    /\ UNCHANGED <<laterVars, timingVars, strict_mode, script, details, checkerVars, pipeVars, path, llm,
                   input_data, target_length, composed,
                   topic, max_sources, provider, search_results, articles, fetch_i>>

ResearchNext == SearchWeb \/ FetchArticle \/ Analyze

SpecResearch == ResearchInit /\ [][ResearchNext]_vars

----------------------------------------------------------------------------
(* Properties of the research *)

\* both queries came back with nothing: the request failed or the result page
\* held no usable result
SearchCameBackEmpty ==
    /\ provider.plain.kind = "raises"
          \/ \A i \in DOMAIN provider.plain.elements : provider.plain.elements[i].url = ""
    /\ provider.news.kind = "raises" \/ provider.news.elements = << >>

\* some keyword of some category occurs in the lower-cased topic
TopicNamesCategory ==
    \E c \in DOMAIN categories : \E k \in DOMAIN categories[c].keywords :
        Contains(categories[c].keywords[k], lower(topic))

C9_OneArticlePerSource ==
    rpc = "done" =>
        /\ Len(articles) = Min(Len(search_results), FetchLimit)
        /\ \A i \in DOMAIN articles :
              /\ i <= Len(search_results)
              /\ articles[i].url = search_results[i].url
              /\ articles[i].content =
                    (IF provider.fetch[search_results[i].url] = "ok"
                     THEN PageOf(search_results[i].url)
                     ELSE search_results[i].snippet)

\* the merged list of the two queries: the entries of the plain query, then
\* those of the news query
Merged ==
    (IF provider.plain.kind = "page"
     THEN Entries(Take(provider.plain.elements, max_sources), FALSE) ELSE << >>)
    \o (IF provider.news.kind = "page"
        THEN Entries(Take(provider.news.elements, max_sources \div 2), TRUE) ELSE << >>)

\* the positions of Merged whose URL does not occur earlier in it
FirstSeen ==
    SelectSeq([i \in DOMAIN Merged |-> i],
              LAMBDA i : \A j \in 1..(i - 1) : Merged[j].url # Merged[i].url)

\* C10: the list _search_web returns has no URL twice and at most max_sources
\* entries; it is the merged list with every later occurrence of a URL
\* removed, in first-seen order, cut to max_sources.  The sources of the
\* ResearchResult are one per entry of that list, in order.
C10_SearchDeduplicated ==
    rpc # "start" =>
        /\ \A i, j \in DOMAIN search_results :
              search_results[i].url = search_results[j].url => i = j
        /\ Len(search_results) = Min(max_sources, Len(FirstSeen))
        /\ \A i \in DOMAIN search_results : search_results[i] = Merged[FirstSeen[i]]
        /\ rpc = "done" =>
              /\ Len(research_result.sources) = Len(search_results)
              /\ \A i \in DOMAIN search_results :
                    /\ research_result.sources[i].url = search_results[i].url
                    /\ research_result.sources[i].title = search_results[i].title
                    /\ research_result.sources[i].snippet = search_results[i].snippet

\* a URL of the plain query came again in the news query, and the list
\* returned is full
C10_Witness ==
    /\ rpc = "done"
    /\ Len(search_results) = max_sources
    /\ \E i \in DOMAIN Merged : Merged[i].is_news /\ i \notin Range(FirstSeen)

\* the keywords of each category found in the topic or in the content of the
\* articles fetched, counted anew
KeywordHits ==
    [c \in DOMAIN categories |->
        Cardinality({k \in DOMAIN categories[c].keywords :
                        \E t \in {lower(topic), lower(JoinContents(articles))} :
                            Contains(categories[c].keywords[k], t)})]

\* C11: when exactly one category has the strictly highest keyword score and
\* that score is positive, the category of the result is that category (more
\* politics keywords than technology keywords and no others: "politics").
C11_StrictMaximumWins ==
    rpc = "done" =>
        \A hits \in {<<KeywordHits[1], KeywordHits[2], KeywordHits[3], KeywordHits[4],
                        KeywordHits[5], KeywordHits[6], KeywordHits[7], KeywordHits[8]>>} :
            \A c \in DOMAIN hits :
                (hits[c] > 0 /\ \A d \in DOMAIN hits \ {c} : hits[d] < hits[c])
                    => research_result.category = categories[c].name

\* two politics keywords against one technology keyword, none of another
\* category: the result is "politics"
C11_Witness ==
    /\ rpc = "done"
    /\ topic = <<"A","I"," ","n","e","w","s">>
    /\ Len(articles) = 1
    /\ research_result.category = "politics"
    /\ KeywordHits[1] = 2
    /\ KeywordHits[3] = 1
    /\ \A c \in DOMAIN categories \ {1, 3} : KeywordHits[c] = 0

\* C12: the category of the result is "general" whenever the highest keyword
\* score is zero or is shared by two or more categories.
C12_TieOrZeroGivesGeneral ==
    rpc = "done" =>
        \A hits \in {<<KeywordHits[1], KeywordHits[2], KeywordHits[3], KeywordHits[4],
                        KeywordHits[5], KeywordHits[6], KeywordHits[7], KeywordHits[8]>>} :
            (\A c \in DOMAIN hits :
                \/ hits[c] = 0
                \/ \E d \in DOMAIN hits \ {c} : hits[d] >= hits[c])
                => research_result.category = "general"

\* fact.lower()[:100] of a text
FactKey(t) == Take(lower(t), 100)

\* the number of words of the topic found in a fact
TopicWordCount(fact) ==
    Cardinality({w \in Words(lower(topic)) : Contains(w, lower(fact))})

\* C13 (as stated): _extract_facts returns at most 15 facts; every returned
\* fact is a sentence of the articles of length strictly between 40 and 300
\* that contains a factual indicator; no two returned facts have the same
\* lower-cased first 100 characters, the first sentence met being the one
\* kept; the returned facts are the highest-scoring ones, in non-increasing
\* order of the number of topic words they contain.
C13_FactsAreFilteredSentences ==
    rpc = "done" =>
        \A key_facts \in {research_result.key_facts} :
        \A retained \in {AllSentences(articles)} :
            /\ Len(key_facts) <= MaxKeyFacts
            /\ \A i \in DOMAIN key_facts :
                  /\ Len(key_facts[i]) > 40
                  /\ Len(key_facts[i]) < 300
                  /\ \E p \in DOMAIN fact_indicators : search(fact_indicators[p], key_facts[i])
                  /\ \E k \in DOMAIN retained :
                        /\ key_facts[i] = retained[k]
                        /\ \A before \in 1..(k - 1) :
                              FactKey(retained[before]) # FactKey(retained[k])
            /\ \A i, j \in DOMAIN key_facts :
                  i < j => /\ FactKey(key_facts[i]) # FactKey(key_facts[j])
                           /\ TopicWordCount(key_facts[i]) >= TopicWordCount(key_facts[j])
            /\ \A k \in DOMAIN retained :
                  (\A i \in DOMAIN key_facts : FactKey(key_facts[i]) # FactKey(retained[k]))
                      => /\ Len(key_facts) = MaxKeyFacts
                         /\ \A i \in DOMAIN key_facts :
                               TopicWordCount(key_facts[i]) >= TopicWordCount(retained[k])

\* C13 (amended): _extract_facts returns at most 15 facts; every returned
\* fact is the normalized form (every run of blanks collapsed to one space)
\* of a sentence of the articles whose stripped length is strictly between
\* 40 and 300 and that contains a factual indicator, so a returned fact has
\* the indicator and fewer than 300 characters but may have 40 or fewer; no
\* two returned facts have the same lower-cased first 100 characters, the
\* first sentence met being the one kept; the returned facts are the
\* highest-scoring ones, in non-increasing order of the number of topic
\* words they contain.
C13_FactsAreNormalizedSentences ==
    rpc = "done" =>
        \A key_facts \in {research_result.key_facts} :
        \A retained \in {AllSentences(articles)} :
        \A facts \in {[k \in DOMAIN retained |-> normalize(retained[k])]} :
            /\ Len(key_facts) <= MaxKeyFacts
            /\ \A k \in DOMAIN retained :
                  /\ Len(retained[k]) > 40
                  /\ Len(retained[k]) < 300
                  /\ \E a \in DOMAIN articles : \E found \in {split(ContentOrSnippet(articles[a]))} :
                        \E s \in DOMAIN found : strip(found[s]) = retained[k]
            /\ \A i \in DOMAIN key_facts :
                  /\ Len(key_facts[i]) < 300
                  /\ \E p \in DOMAIN fact_indicators : search(fact_indicators[p], key_facts[i])
                  /\ \E k \in DOMAIN facts :
                        /\ key_facts[i] = facts[k]
                        /\ \A before \in 1..(k - 1) : FactKey(facts[before]) # FactKey(facts[k])
            /\ \A i, j \in DOMAIN key_facts :
                  i < j => /\ FactKey(key_facts[i]) # FactKey(key_facts[j])
                           /\ TopicWordCount(key_facts[i]) >= TopicWordCount(key_facts[j])
            /\ \A k \in DOMAIN facts :
                  (\A i \in DOMAIN key_facts : FactKey(key_facts[i]) # FactKey(facts[k]))
                      => /\ Len(key_facts) = MaxKeyFacts
                         /\ \A i \in DOMAIN key_facts :
                               TopicWordCount(key_facts[i]) >= TopicWordCount(facts[k])

\* a research that found more sentences than it returns facts, among them two
\* with the same key and one with runs of blanks, whose fact is returned with
\* 40 characters or fewer
C13_Witness ==
    /\ rpc = "done"
    /\ Len(research_result.key_facts) = MaxKeyFacts
    /\ \E retained \in {AllSentences(articles)} :
          /\ Len(retained) > MaxKeyFacts + 1
          /\ \E i, j \in DOMAIN retained :
                i < j /\ FactKey(retained[i]) = FactKey(retained[j])
    /\ \E i \in DOMAIN research_result.key_facts : Len(research_result.key_facts[i]) <= 40
    /\ \E i, j \in DOMAIN research_result.key_facts :
          TopicWordCount(research_result.key_facts[i]) > TopicWordCount(research_result.key_facts[j])

\* the events of an article in the order of the text: the matches of all
\* date patterns by the position where they start
TextOrderEvents(article) ==
    LET content == ContentOrSnippet(article)
        of(p) == EventsOf(date_patterns[p], content, article.domain)
        starts(p) == LET matches == finditer(date_patterns[p], content, 1)
                         far == SelectSeq(matches, LAMBDA m :
                                    Len(strip(SubSeq(content, Max(0, (m.start - 1) - 50) + 1,
                                                     Min(Len(content), (m.end - 1) + 150)))) > 50)
                     IN  [i \in DOMAIN far |-> far[i].start]
        all == of(1) \o of(2) \o of(3) \o of(4)
        at == starts(1) \o starts(2) \o starts(3) \o starts(4)
        rank(i) == Cardinality({j \in DOMAIN at : at[j] < at[i] \/ (at[j] = at[i] /\ j < i)}) + 1
    IN  [r \in DOMAIN all |-> all[CHOOSE i \in DOMAIN all : rank(i) = r]]

\* the events of the articles, article after article, each in text order
RECURSIVE SourceOrderEvents(_)
SourceOrderEvents(arts) ==
    IF arts = << >> THEN << >>
    ELSE TextOrderEvents(arts[1]) \o SourceOrderEvents(Tail(arts))

\* C14: _build_timeline returns at most 8 events, no two with the same first
\* 50 characters of description, in source-encounter order: the articles in
\* fetch order and, within one article, the date matches in the order they
\* occur in the text; of duplicates the first met is kept.
C14_TimelineInSourceOrder ==
    rpc = "done" =>
        /\ Len(research_result.timeline) <= MaxEvents
        /\ \A i, j \in DOMAIN research_result.timeline :
              i < j => Take(research_result.timeline[i].description, 50)
                          # Take(research_result.timeline[j].description, 50)
        /\ research_result.timeline
              = Take(UniqueEvents(SourceOrderEvents(articles), {}), MaxEvents)

\* C14, the part that holds: at most 8 events, no two with the same first 50
\* characters of description, every one a date match of an article with its
\* context
C14_TimelineBoundedUnique ==
    rpc = "done" =>
        /\ Len(research_result.timeline) <= MaxEvents
        /\ \A i, j \in DOMAIN research_result.timeline :
              i < j => Take(research_result.timeline[i].description, 50)
                          # Take(research_result.timeline[j].description, 50)
        /\ \A events \in {SourceOrderEvents(articles)} :
              \A i \in DOMAIN research_result.timeline :
                  \E k \in DOMAIN events : events[k] = research_result.timeline[i]

\* the call returned the script of a deterministic builder: the model is
\* absent, raised, or answered with something that is no JSON object
BuilderReturned ==
    composed = "returned" /\ llm.kind # "object"

\* C15: for every target_length and every ResearchResult, whatever the number
\* of its facts, the script of the research-path builder has exactly
\* max(5, min(10, target_length // 6)) scenes, between 5 and 10.
C15_ResearchSceneCount ==
    (BuilderReturned /\ path = "research") =>
        /\ Len(script.scenes) = Max(5, Min(10, target_length \div 6))
        /\ Len(script.scenes) \in 5..10

\* C16: on the simple path without a model the script of the builder has
\* max(5, min(8, target_length // 5)) scenes, a call-to-action scene being
\* appended when there are fewer than 5 key points; for target_length 30
\* and 3 key points it has exactly 6 scenes, a hook of 2.0 seconds, every
\* scene but the last of max(4, (30 - 2) // max(3, 5)) = 5.0 seconds, and a
\* total_duration of 2.0 plus the sum of the scene durations.
C16_SimpleSceneCount ==
    (composed = "returned" /\ path = "simple" /\ llm.kind = "absent") =>
        /\ Len(script.scenes) = Max(5, Min(8, input_data.target_length \div 5))
        /\ (input_data.target_length = 30 /\ Len(input_data.key_points) = 3) =>
              /\ Len(script.scenes) = 6
              /\ script.hook.duration = 2 * Unit
              /\ \A i \in 1..(Len(script.scenes) - 1) : script.scenes[i].duration = 5 * Unit
              /\ script.total_duration = 2 * Unit + SumDurations(script.scenes)

\* C16, the part that holds: a call-to-action scene of 3.0 seconds is
\* appended when there are fewer than 5 key points; every other scene lasts
\* max(4, (target_length - 2) // max(len(key_points), 5)) seconds, the hook
\* 2.0 seconds, and total_duration is their sum
C16_SimpleDurations ==
    (composed = "returned" /\ path = "simple" /\ llm.kind = "absent") =>
        /\ Len(script.scenes) = Min(6, Len(input_data.key_points))
                                   + (IF Len(input_data.key_points) < 5 THEN 1 ELSE 0)
        /\ script.hook.duration = 2 * Unit
        /\ \A i \in 1..Min(6, Len(input_data.key_points)) :
              script.scenes[i].duration
                 = Max(4, (input_data.target_length - 2) \div Max(Len(input_data.key_points), 5)) * Unit
        /\ script.total_duration = 2 * Unit + SumDurations(script.scenes)

\* C17: every scene of every script of the deterministic builders, on the
\* research path and on the simple path, has a duration greater than 0, for
\* every positive target_length.
C17_SceneDurationsPositive ==
    BuilderReturned =>
        \A i \in DOMAIN script.scenes : script.scenes[i].duration > 0

\* C17, the part that holds: on the simple path every scene lasts at least
\* 3.0 seconds; on the research path every scene does when target_length is
\* greater than 3
C17_PositiveAboveHook ==
    BuilderReturned =>
        /\ path = "simple" => \A i \in DOMAIN script.scenes : script.scenes[i].duration >= 3 * Unit
        /\ (path = "research" /\ target_length > 3) =>
              \A i \in DOMAIN script.scenes : script.scenes[i].duration > 0

----------------------------------------------------------------------------
(* The timing steps of generate (main.py, steps 3 to 5): the voiceover is
   rendered, the engine chosen gives the scene timings, and the caption
   generator turns them into captions.

   Durations are ticks (Unit a second).  An engine that scales multiplies by
   a fraction; the times it returns are kept as numerators over the common
   denominator den, so that a time t stands for t / den seconds and nothing
   is rounded. *)

\* the longest script that is timed
MaxTimedScenes == 2

\* script.get('total_duration', 30)
DefaultTotal == 30

\* len(narration) if narration else 100
DefaultChars == 100

\* the scripts handed to the timing steps: a hook and scenes with declared
\* durations, some of them 0, and texts, some of them empty
TimedScripts ==
    {[hook |-> hook, scenes |-> scenes,
      total_duration |-> hook.duration + SumDurations(scenes)] :
        hook \in [text : {<< >>, <<"H","i">>}, duration : {0, 2 * Unit},
                  text_overlay : {<<"W","A","I","T","!">>}],
        scenes \in SeqsUpTo([narration : {<< >>, <<"a","b","c">>},
                             duration : {0, Unit, 4 * Unit},
                             text_overlay : {<<"a","b">>}], MaxTimedScenes) \ {<< >>}}

\* the voiceover file after generate_voiceover: missing, not readable as
\* audio, or readable with the duration the synthesizer gave it
Sounds ==
    {NoAudio, [exists |-> TRUE, readable |-> FALSE, duration |-> 0]}
        \cup {[exists |-> TRUE, readable |-> TRUE, duration |-> d * Unit] : d \in {3, 7}}

\* TypeError: list indices must be integers or slices, not str
TypeError == [raised |-> TRUE, value |-> "TypeError"]

\* every span starts at current_time however long the spans before it are
Spans_overlapping(lengths, current_time) ==
    [i \in DOMAIN lengths |->
        [start |-> current_time, end |-> current_time + lengths[i], duration |-> lengths[i]]]

\* the loop over script['scenes']: a span per length, each starting where
\* the one before ends
RECURSIVE Spans(_, _)
Spans(lengths, current_time) ==
    IF lengths = << >> THEN << >>
    ELSE <<[start |-> current_time, end |-> current_time + lengths[1],
            duration |-> lengths[1]]>>
             \o Spans(Tail(lengths), current_time + lengths[1])

\* the timings dict of the hook and the scenes with their durations scaled
\* by num / den
TimingsDict(s, num, den) ==
    LET scenes == Spans([i \in DOMAIN s.scenes |-> s.scenes[i].duration * num],
                        s.hook.duration * num)
    IN  [den |-> den,
         hook |-> [start |-> 0, end |-> s.hook.duration * num,
                   duration |-> s.hook.duration * num],
         scenes |-> scenes,
         total_duration |-> IF scenes = << >> THEN s.hook.duration * num
                            ELSE scenes[Len(scenes)].end]

\* PiperTTS.generate_scene_timings: the declared durations, the audio is not
\* looked at
PiperTTS_generate_scene_timings(s, sound) == TimingsDict(s, 1, 1)

\* the durations are never scaled
scale_factor_one(s, sound) == [num |-> 1, den |-> 1]

\* scale_factor of VoiceCloningTTS.generate_scene_timings
scale_factor(s, sound) ==
    LET script_duration == s.hook.duration + SumDurations(s.scenes)
    IN  IF sound.exists /\ sound.readable /\ script_duration > 0
        THEN [num |-> sound.duration, den |-> script_duration]
        ELSE [num |-> 1, den |-> 1]

\* VoiceCloningTTS.generate_scene_timings
VoiceCloningTTS_generate_scene_timings(s, sound) ==
    TimingsDict(s, scale_factor(s, sound).num, scale_factor(s, sound).den)

\* NeuTTSVoiceCloning.generate_scene_timings: a list of (start, end) pairs,
\* the duration of the audio shared out by the lengths of the texts
NeuTTS_generate_scene_timings(s, sound) ==
    LET total_duration == IF sound.exists /\ sound.readable THEN sound.duration
                          ELSE IF "total_duration" \in DOMAIN s THEN s.total_duration
                          ELSE DefaultTotal * Unit
        hook == IF s.hook.text # << >> THEN <<Len(s.hook.text)>> ELSE << >>
        segments == hook \o [i \in DOMAIN s.scenes |->
                                IF s.scenes[i].narration # << >>
                                THEN Len(s.scenes[i].narration) ELSE DefaultChars]
        RECURSIVE sum(_)
        sum(q) == IF q = << >> THEN 0 ELSE q[1] + sum(Tail(q))
        total_chars == IF sum(segments) = 0 THEN 1 ELSE sum(segments)
        spans == Spans([i \in DOMAIN segments |-> segments[i] * total_duration], 0)
    IN  [den |-> total_chars,
         list |-> [i \in DOMAIN spans |-> <<spans[i].start, spans[i].end>>]]

\* every scene caption carries the span of the hook
generate_captions_hook_span(s, t) ==
    IF "hook" \notin DOMAIN t THEN TypeError
    ELSE IF Len(t.scenes) < Len(s.scenes) THEN IndexError
    ELSE Return(
        <<[text |-> [call |-> "_format_caption_text", text |-> s.hook.text_overlay],
           start |-> t.hook.start, end |-> t.hook.end, style |-> "hook"]>>
        \o [i \in DOMAIN s.scenes |->
               [text |-> [call |-> "_format_caption_text", text |-> s.scenes[i].text_overlay],
                start |-> t.hook.start, end |-> t.hook.end, style |-> "normal"]])

\* CaptionGenerator.generate_captions_from_script; the text of a caption is
\* kept as the call that formats it
generate_captions_from_script(s, t) ==
    LET shown(unit, spoken) == IF "text_overlay" \in DOMAIN unit THEN unit.text_overlay
                               ELSE spoken
    IN  IF "hook" \notin DOMAIN t THEN TypeError
        ELSE IF Len(t.scenes) < Len(s.scenes) THEN IndexError
        ELSE Return(
            <<[text |-> [call |-> "_format_caption_text", text |-> shown(s.hook, s.hook.text)],
               start |-> t.hook.start, end |-> t.hook.end, style |-> "hook"]>>
            \o [i \in DOMAIN s.scenes |->
                   [text |-> [call |-> "_format_caption_text",
                              text |-> shown(s.scenes[i], s.scenes[i].narration)],
                    start |-> t.scenes[i].start, end |-> t.scenes[i].end,
                    style |-> "normal"]])

TimingInit ==
    /\ LaterIdle
    /\ strict_mode = TRUE
    /\ CheckerIdle
    /\ ComposeIdle
    /\ ResearchIdle
    /\ details = NoDetails
    /\ pc = "idle"
    /\ log = << >>
    /\ check_calls = 0
    /\ exit_code = -1
    /\ research = FALSE
    /\ image_source = "unset"
    /\ save_intermediate = FALSE
    /\ tts_engine \in {"PiperTTS", "VoiceCloningTTS", "NeuTTSVoiceCloning"}
    /\ no_captions \in BOOLEAN
    /\ script \in TimedScripts
    /\ audio = NoAudio
    /\ timings = << >>
    /\ captions = << >>
    /\ tpc = "start"

\* generate, step 3: tts.generate_voiceover(script, audio_path)
RenderVoiceover ==
    /\ tpc = "start"
    /\ audio' \in Sounds
    /\ tpc' = "voiced"
    /\ UNCHANGED <<laterVars, strict_mode, script, details, checkerVars, pipeVars, composeVars,
                   researchVars, timings, captions>>

\* generate: timings = tts.generate_scene_timings(script, audio_path)
SceneTimings ==
    /\ tpc = "voiced"
    /\ timings' = (IF tts_engine = "NeuTTSVoiceCloning"
                   THEN NeuTTS_generate_scene_timings(script, audio)
                   ELSE IF tts_engine = "VoiceCloningTTS"
                   THEN VoiceCloningTTS_generate_scene_timings(script, audio)
                   ELSE PiperTTS_generate_scene_timings(script, audio))
    /\ tpc' = "timed"
    /\ UNCHANGED <<laterVars, strict_mode, script, details, checkerVars, pipeVars, composeVars,
                   researchVars, audio, captions>>

\* generate, step 5: captions = None, and generate_captions_from_script
\* unless --no-captions; an exception ends the command
GenerateCaptions ==
    /\ tpc = "timed"
    /\ IF no_captions
       THEN captions' = "None" /\ tpc' = "captioned"
       ELSE LET r == generate_captions_from_script(script, timings)
            IN  IF r.raised THEN captions' = << >> /\ tpc' = "failed"
                ELSE captions' = r.value /\ tpc' = "captioned"
    /\ UNCHANGED <<laterVars, strict_mode, script, details, checkerVars, pipeVars, composeVars,
                   researchVars, audio, timings>>

TimingNext == RenderVoiceover \/ SceneTimings \/ GenerateCaptions

SpecTimings == TimingInit /\ [][TimingNext]_vars

----------------------------------------------------------------------------
(* Properties of the timings *)

\* the spans an engine returned, hook first where there is one
SpansOf(t) ==
    IF "hook" \in DOMAIN t
    THEN <<[start |-> t.hook.start, end |-> t.hook.end]>>
             \o [i \in DOMAIN t.scenes |-> [start |-> t.scenes[i].start, end |-> t.scenes[i].end]]
    ELSE [i \in DOMAIN t.list |-> [start |-> t.list[i][1], end |-> t.list[i][2]]]

\* the spans start at 0, each starts where the one before ends, none ends
\* before it starts, and the last ends after total seconds
Partition(spans, den, total) ==
    /\ spans # << >>
    /\ spans[1].start = 0
    /\ \A i \in DOMAIN spans : spans[i].start <= spans[i].end
    /\ \A i \in 1..(Len(spans) - 1) : spans[i + 1].start = spans[i].end
    /\ spans[Len(spans)].end = total * den

C19_CaptionsEndWithAudio ==
    (tpc \in {"captioned", "failed"} /\ ~no_captions /\ audio.exists /\ audio.readable) =>
        /\ tpc = "captioned"
        /\ captions[Len(captions)].end = audio.duration * timings.den

Shown(unit, spoken) ==
    [call |-> "_format_caption_text",
     text |-> IF "text_overlay" \in DOMAIN unit THEN unit.text_overlay ELSE spoken]

\* C25: for timings with a hook entry and an entry per scene,
\* generate_captions_from_script returns exactly 1 + len(scenes) captions:
\* the hook caption first, then one caption per scene in script order, each
\* with the start and the end of the timing entry of the same unit; for the
\* running sums of the declared durations (PiperTTS) the first caption
\* starts at 0 and every caption starts where the one before it ends.
C25_CaptionPerUnitWithItsSpan ==
    (tpc = "captioned" /\ ~no_captions) =>
        /\ Len(captions) = 1 + Len(script.scenes)
        /\ captions[1].style = "hook"
        /\ captions[1].text = Shown(script.hook, script.hook.text)
        /\ captions[1].start = timings.hook.start
        /\ captions[1].end = timings.hook.end
        /\ \A i \in DOMAIN script.scenes :
              /\ captions[i + 1].style = "normal"
              /\ captions[i + 1].text = Shown(script.scenes[i], script.scenes[i].narration)
              /\ captions[i + 1].start = timings.scenes[i].start
              /\ captions[i + 1].end = timings.scenes[i].end
        /\ tts_engine = "PiperTTS" =>
              /\ captions[1].start = 0
              /\ \A i \in 1..(Len(captions) - 1) : captions[i + 1].start = captions[i].end

\* captions of a hook and two scenes of different declared durations, timed
\* by PiperTTS
C25_Witness ==
    /\ tpc = "captioned"
    /\ ~no_captions
    /\ tts_engine = "PiperTTS"
    /\ Len(script.scenes) = 2
    /\ Len(captions) = 3
    /\ captions[1].end > 0
    /\ captions[2].start = captions[1].end
    /\ captions[2].end > captions[2].start
    /\ captions[3].start = captions[2].end
    /\ captions[3].end - captions[3].start > captions[2].end - captions[2].start

\* C28: for every engine of generate (piper, xtts, neutts) the timings that
\* generate_scene_timings returns have the shape the caption generator
\* reads, an entry timings['hook'] and one entry timings['scenes'][i] for
\* each scene, so that a run with captions never fails at the caption step.
C28_EveryEngineGivesCaptionShape ==
    /\ tpc \in {"timed", "captioned", "failed"} =>
          /\ "hook" \in DOMAIN timings
          /\ Len(timings.scenes) = Len(script.scenes)
    /\ tpc # "failed"

----------------------------------------------------------------------------
(* Properties of the research-path builder *)

\* the research path returned the script of _generate_structured_script
ResearchBuilderReturned == BuilderReturned /\ path = "research"

\* clamp(target_length // 6, 5, 10)
NumScenes == Max(5, Min(10, target_length \div 6))

\* C23: in a script of the research-path builder every fact scene lasts
\* (target_length - 3) / num_scenes seconds with num_scenes =
\* clamp(target_length // 6, 5, 10), there are at most num_scenes - 1 fact
\* scenes (one for each of the first key facts), and the last scene, and no
\* other, is the call to action of 3.0 seconds.
C23_EqualFactScenesThenCallToAction ==
    ResearchBuilderReturned =>
        LET scenes == script.scenes
            last == Len(scenes)
        IN  /\ last >= 1
            /\ last - 1 <= NumScenes - 1
            /\ last - 1 = Min(Len(research_result.key_facts), NumScenes - 1)
            /\ \A i \in 1..(last - 1) :
                  /\ scenes[i].duration * NumScenes = (target_length - 3) * Unit
                  /\ scenes[i].narration
                        = [call |-> "_fact_to_narration", fact |-> research_result.key_facts[i]]
                  /\ scenes[i].fact_source # <<"Call to action">>
            /\ scenes[last].duration = 3 * Unit
            /\ scenes[last].fact_source = <<"Call to action">>

\* ten key facts and a target of a minute or more: nine fact scenes of a
\* tenth of the time after the hook each, then the call to action
C23_Witness ==
    /\ ResearchBuilderReturned
    /\ target_length >= 60
    /\ Len(research_result.key_facts) = 10
    /\ Len(script.scenes) = 10
    /\ script.scenes[9].duration * 10 = (target_length - 3) * Unit
    /\ script.scenes[9].duration # script.scenes[10].duration

\* C24: the hook of the builder is made from the first fact of key_facts, in
\* rank order, that holds a percent sign, a dollar sign, "million",
\* "billion", "first" or "breaking", and from the top-ranked fact only when
\* no fact of key_facts holds one; it lasts 3.0 seconds and its text_overlay
\* is the first 30 characters of its text in upper case.
C24_HookFromFirstMarkedFact ==
    (ResearchBuilderReturned /\ research_result.key_facts # << >>) =>
        LET key_facts == research_result.key_facts
            markers == {<<"%">>, <<"$">>, <<"m","i","l","l","i","o","n">>, <<"b","i","l","l","i","o","n">>, <<"f","i","r","s","t">>, <<"b","r","e","a","k","i","n","g">>}
            marked(fact) == \E m \in markers : Contains(m, fact)
            best_fact ==
                IF \E i \in DOMAIN key_facts : marked(key_facts[i])
                THEN key_facts[CHOOSE i \in DOMAIN key_facts :
                                   marked(key_facts[i]) /\ \A j \in 1..(i - 1) : ~marked(key_facts[j])]
                ELSE key_facts[1]
        IN  /\ script.hook.text = make_hook_engaging(best_fact, research_result.topic)
            /\ script.hook.duration = 3 * Unit
            /\ script.hook.text_overlay = upper(Take(script.hook.text, 30))

\* C30: the total_duration of a script of the research-path builder (3.0 for
\* the hook, the fact scenes, 3.0 for the call to action) is never greater
\* than the target_length asked for.
C30_TotalWithinTarget ==
    ResearchBuilderReturned => script.total_duration <= target_length * Unit

\* C29: when ScriptGenerator falls back on its builder because the answer of
\* the model cannot be parsed or lacks the hook, the scenes or a duration,
\* the script returned is built from the input_data of the caller: it is the
\* script the builder returns for that input when the model is absent or
\* raises.
C29_ParserFallbackFromInput ==
    (path = "simple" /\ composed = "returned") =>
        LET json == llm.json
            whole == /\ llm.kind = "object"
                     /\ json.has_hook /\ json.hook.has_duration /\ json.has_scenes
                     /\ \A i \in DOMAIN json.scenes : json.scenes[i].has_duration
        IN  ~whole => script = generate_mock_script(input_data)

\* every field of the unit before is in the unit after with the same value,
\* and the unit after has no other fields than those and the ones named
SameBut(before, after, fields) ==
    /\ DOMAIN before \subseteq DOMAIN after
    /\ DOMAIN after \subseteq DOMAIN before \cup fields
    /\ \A k \in DOMAIN before \ fields : after[k] = before[k]

\* C27: the enrichment pass changes only visual_prompt and
\* image_search_keywords: the number and the order of the scenes, every
\* scene's narration, text_overlay and duration (and any other field), the
\* hook's text and duration and total_duration are as before, so that
\* total_duration is still the hook's duration plus the sum of the scenes'.
C27_EnrichmentFrame ==
    [][(composed = "returned" /\ composed' = "enhanced") =>
          /\ Len(script'.scenes) = Len(script.scenes)
          /\ \A i \in DOMAIN script.scenes :
                SameBut(script.scenes[i], script'.scenes[i],
                        {"visual_prompt", "image_search_keywords"})
          /\ SameBut(script.hook, script'.hook, {"image_search_keywords"})
          /\ script'.total_duration = script.total_duration
          /\ script'.total_duration
                = script'.hook.duration + SumDurations(script'.scenes)]_vars

\* an enriched script of the builder whose first scene had the keyword Mars
\* put before its visual prompt, and a second scene that no keyword is left
\* for
C27_Witness ==
    /\ composed = "enhanced"
    /\ llm.kind # "object"
    /\ research_result.image_keywords = <<<<"M","a","r","s">>>>
    /\ Len(script.scenes) >= 2
    /\ Take(script.scenes[1].visual_prompt, 11) = <<"M","a","r","s",","," ","F","a","c","t"," ">>
    /\ Take(script.scenes[2].visual_prompt, 5) = <<"F","a","c","t"," ">>
    /\ \A i \in DOMAIN script.scenes : "image_search_keywords" \in DOMAIN script.scenes[i]
    /\ "image_search_keywords" \in DOMAIN script.hook

----------------------------------------------------------------------------
(* SmartImageFetcher.fetch_images (smart_image_fetcher.py): for the hook and
   every scene the sources are searched, the candidates ranked, and the
   candidates downloaded one after another until one download succeeds.

   A candidate is the number it has in the list the sources gave; whether a
   download succeeds is for the network to say. *)

\* the most scenes of a script whose images are fetched
MaxImageScenes == 1

\* the most candidates the sources give for a unit
MaxCandidates == 5

\* candidates[1:4]
NextCandidates == 3

\* the other variables are idle
OlderIdle ==
    /\ strict_mode = TRUE
    /\ script = NoScript
    /\ details = NoDetails
    /\ CheckerIdle
    /\ PipeIdle
    /\ ComposeIdle
    /\ ResearchIdle
    /\ TimingIdle

\* the best candidate is tried again and again
download_order_best_again(candidates) ==
    [a \in 1..Min(Len(candidates), 1 + NextCandidates) |-> candidates[1]]

\* the order of the downloads: best = candidates[0], then candidates[1:4]
download_order(candidates) ==
    <<candidates[1]>> \o SubSeq(candidates, 2, Min(Len(candidates), 1 + NextCandidates))

\* image_paths.append(...) for the unit at hand, and on to the next unit;
\* fetch_images returns after the last
NextUnit(f, kind) ==
    [f EXCEPT !.image_paths = Append(@, [name |-> <<"scene_", f.i, ".png">>, kind |-> kind]),
              !.i = @ + 1,
              !.fpc = IF f.i + 1 = f.units THEN "returned" ELSE "search"]

FetchInit ==
    /\ OlderIdle
    /\ saving = << >>
    /\ fs = << >>
    /\ runs = << >>
    /\ \E scenes \in 0..MaxImageScenes, use_clip \in BOOLEAN :
          fetcher = [units |-> 1 + scenes, use_clip |-> use_clip, i |-> 0,
                     candidates |-> << >>, tried |-> << >>, image_paths |-> << >>,
                     fpc |-> "search"]

\* _rank_by_similarity: candidates.sort(key=similarity_score, reverse=True),
\* a stable sort; a score is 0 (also when the thumbnail cannot be read) or
\* higher
rank_by_similarity(candidates, scores) ==
    LET high(c) == scores[c] = 1
        low(c) == scores[c] = 0
    IN  SelectSeq(candidates, high) \o SelectSeq(candidates, low)

\* fetch_images, the loop body up to the first download: the query is
\* built, the sources are searched and the candidates ranked when CLIP is
\* there; without a candidate the fallback image is made
SearchAllSources ==
    /\ fetcher # << >>
    /\ fetcher.fpc = "search"
    /\ \E n \in 0..MaxCandidates :
          \E scores \in [1..n -> IF fetcher.use_clip THEN {0, 1} ELSE {0}] :
             \E ranked \in {rank_by_similarity([c \in 1..n |-> c], scores)} :
             fetcher' = (IF n = 0
                         THEN NextUnit([fetcher EXCEPT !.candidates = << >>, !.tried = << >>],
                                       "fallback")
                         ELSE [fetcher EXCEPT !.candidates = ranked, !.tried = << >>,
                                              !.fpc = "download"])
    /\ UNCHANGED <<olderVars, saving, fs, runs>>

\* fetch_images: _download_and_process of the best candidate and then of
\* candidates[1:4] one after another, until one succeeds; the fallback image
\* when none does
DownloadAndProcess ==
    /\ fetcher # << >>
    /\ fetcher.fpc = "download"
    /\ \E success \in BOOLEAN :
          LET order == download_order(fetcher.candidates)
              tried == Append(fetcher.tried, order[Len(fetcher.tried) + 1])
              after == [fetcher EXCEPT !.tried = tried]
          IN  fetcher' = (IF success THEN NextUnit(after, "downloaded")
                          ELSE IF Len(tried) = Len(order) THEN NextUnit(after, "fallback")
                          ELSE after)
    /\ UNCHANGED <<olderVars, saving, fs, runs>>

FetchNext == SearchAllSources \/ DownloadAndProcess

\* every request has a timeout, so a step that can be taken is taken
SpecFetch == FetchInit /\ [][FetchNext]_vars /\ WF_vars(FetchNext)

----------------------------------------------------------------------------
(* Properties of fetch_images *)

\* nothing is in the sequence twice
Distinct(seq) == \A a, b \in DOMAIN seq : a # b => seq[a] # seq[b]

\* C26: fetch_images terminates and returns one image path for every unit,
\* the hook first and then the scenes in order, whatever downloads fail; for
\* a unit it tries at most 4 downloads (the best candidate, then at most 3
\* of the next, none twice), and a fallback image is made only when there
\* was no candidate or every one of these downloads failed.
C26_BoundedAttemptsOnePathPerUnit ==
    /\ [](fetcher # << >> =>
            /\ Len(fetcher.tried) <= 4
            /\ Distinct(fetcher.tried)
            /\ \A a \in DOMAIN fetcher.tried : fetcher.tried[a] = fetcher.candidates[a]
            /\ Len(fetcher.image_paths) = fetcher.i
            /\ \A u \in DOMAIN fetcher.image_paths :
                  fetcher.image_paths[u].name = <<"scene_", u - 1, ".png">>
            /\ fetcher.fpc = "returned" => Len(fetcher.image_paths) = fetcher.units
            /\ (fetcher.fpc \in {"search", "returned"} /\ fetcher.i > 0
                   /\ fetcher.image_paths[fetcher.i].kind = "fallback")
                  => Len(fetcher.tried) = Min(Len(fetcher.candidates), 4))
    /\ <>(fetcher # << >> /\ fetcher.fpc = "returned")

\* fetch_images returned two paths, the last of them a fallback image made
\* after four of five candidates failed, the best of them not the first of
\* the list
C26_Witness ==
    /\ fetcher # << >>
    /\ fetcher.fpc = "returned"
    /\ fetcher.units = 2
    /\ Len(fetcher.image_paths) = 2
    /\ fetcher.image_paths[1].kind = "downloaded"
    /\ fetcher.image_paths[2].kind = "fallback"
    /\ Len(fetcher.candidates) = 5
    /\ fetcher.candidates[1] # 1
    /\ fetcher.tried = SubSeq(fetcher.candidates, 1, 4)

----------------------------------------------------------------------------
(* Two generate commands running side by side as separate processes
   (main.py, compositor.py).  What they share is the file system: a file is
   the directory of the output, the directory under it ("" for the output
   directory itself) and its name, and fs says which run wrote it last, 0 for
   a file that is not there.  A step of a run is one of the calls of
   generate; the steps of the two runs interleave in any order. *)

\* the directories and names given with --output
OutputDirs == {"outputs", "other"}

OutputNames == {"reel.mp4", "b.mp4"}

Commands == {1, 2}

\* temp_dir: output_dir / ".temp", or output_dir / "intermediate" with
\* --save-intermediate
temp_dir(r) == IF r.save_intermediate THEN "intermediate" ELSE ".temp"

\* the files a run of generate writes, reads or deletes
AllFiles ==
    {<<d, t, f>> : d \in OutputDirs, t \in {".temp", "intermediate"},
                   f \in {"script.json", "voiceover.wav", "images"}}
        \cup {<<d, "", f>> : d \in OutputDirs,
                             f \in {"concat_list.txt", "temp_video.mp4"} \cup OutputNames}

\* the files under the temporary directory of a run
TempFiles(r) == {k \in AllFiles : k[1] = r.output_dir /\ k[2] = temp_dir(r)}

\* run p has written (0: deleted) the files keys; it has touched a file of
\* the other run when one of the files it handles was written by the other
Touch(p, keys, writer, next, made_of) ==
    /\ fs' = [k \in AllFiles |-> IF k \in keys THEN writer ELSE fs[k]]
    /\ runs' = [runs EXCEPT ![p].pc = next,
                            ![p].made_of = made_of,
                            ![p].touched = @ \/ \E k \in keys : fs[k] \notin {0, p}]

ParallelInit ==
    /\ OlderIdle
    /\ fetcher = << >>
    /\ saving = << >>
    /\ fs = [k \in AllFiles |-> 0]
    /\ runs \in [Commands -> [output_dir : OutputDirs, name : OutputNames,
                              save_intermediate : BOOLEAN, pc : {"start"},
                              made_of : {{}}, touched : {FALSE}]]

\* generate, steps 1 and 2: temp_dir.mkdir, the script is composed and
\* save_script writes temp_dir / "script.json"
RunSaveScript(p) ==
    /\ runs[p].pc = "start"
    /\ Touch(p, {<<runs[p].output_dir, temp_dir(runs[p]), "script.json">>}, p, "scripted", {})

\* generate, step 3: generate_voiceover writes temp_dir / "voiceover.wav"
RunVoiceover(p) ==
    /\ runs[p].pc = "scripted"
    /\ Touch(p, {<<runs[p].output_dir, temp_dir(runs[p]), "voiceover.wav">>}, p, "voiced", {})

\* generate, step 4: the images are written under temp_dir / "images"
RunImages(p) ==
    /\ runs[p].pc = "voiced"
    /\ Touch(p, {<<runs[p].output_dir, temp_dir(runs[p]), "images">>}, p, "imaged", {})

\* compose_video: _create_video_from_images writes concat_list.txt, the
\* images and their durations
RunConcatList(p) ==
    /\ runs[p].pc = "imaged"
    /\ Touch(p, {<<runs[p].output_dir, "", "concat_list.txt">>}, p, "listed", {})

\* _create_video_from_images: ffmpeg makes temp_video.mp4 from the images
\* concat_list.txt names and the list is removed; it raises when ffmpeg
\* fails or the list is gone
RunCreateVideo(p) ==
    /\ runs[p].pc = "listed"
    /\ LET images == <<runs[p].output_dir, temp_dir(runs[p]), "images">>
           concat_file == <<runs[p].output_dir, "", "concat_list.txt">>
           video == <<runs[p].output_dir, "", "temp_video.mp4">>
       IN  IF fs[concat_file] = 0 \/ fs[images] = 0
           THEN Touch(p, {}, p, "failed", {})
           ELSE /\ fs' = [fs EXCEPT ![video] = p, ![concat_file] = 0]
                /\ runs' = [runs EXCEPT ![p].pc = "video",
                                        ![p].made_of = {fs[concat_file], fs[images]},
                                        ![p].touched = @ \/ fs[images] # p
                                                         \/ fs[concat_file] # p
                                                         \/ fs[video] \notin {0, p}]

\* compose_video: _add_audio puts the voiceover on temp_video.mp4 (the video
\* alone when ffmpeg fails), the result becomes the output and
\* temp_video.mp4 is removed
RunAddAudio(p) ==
    /\ runs[p].pc = "video"
    /\ LET audio_path == <<runs[p].output_dir, temp_dir(runs[p]), "voiceover.wav">>
           video == <<runs[p].output_dir, "", "temp_video.mp4">>
           output == <<runs[p].output_dir, "", runs[p].name>>
       IN  IF fs[video] = 0
           THEN Touch(p, {}, p, "failed", runs[p].made_of)
           ELSE /\ fs' = [fs EXCEPT ![output] = p, ![video] = 0]
                /\ runs' = [runs EXCEPT ![p].pc = "composed",
                                        ![p].made_of = {fs[video], fs[audio_path]},
                                        ![p].touched = @ \/ fs[video] # p
                                                         \/ fs[audio_path] \notin {0, p}
                                                         \/ fs[output] \notin {0, p}]

\* generate: shutil.rmtree(temp_dir) unless --save-intermediate; it raises
\* when the directory is not there
RunCleanup(p) ==
    /\ runs[p].pc = "composed"
    /\ IF runs[p].save_intermediate THEN Touch(p, {}, p, "done", runs[p].made_of)
       ELSE IF \A k \in TempFiles(runs[p]) : fs[k] = 0
       THEN Touch(p, {}, p, "failed", runs[p].made_of)
       ELSE Touch(p, TempFiles(runs[p]), 0, "done", runs[p].made_of)

ParallelNext ==
    \E p \in Commands :
        /\ \/ RunSaveScript(p) \/ RunVoiceover(p) \/ RunImages(p)
           \/ RunConcatList(p) \/ RunCreateVideo(p) \/ RunAddAudio(p) \/ RunCleanup(p)
        /\ UNCHANGED <<olderVars, fetcher, saving>>

SpecParallel == ParallelInit /\ [][ParallelNext]_vars

----------------------------------------------------------------------------
(* Properties of two commands side by side *)

\* C21: two generate commands that run side by side do not interfere: under
\* every interleaving of their steps neither reads, overwrites or deletes a
\* file the other made (script.json, the voiceover, the images,
\* temp_video.mp4, the temporary directory), so each ends as it would alone:
\* it does not fail, and its video is made of its own images and voiceover.
C21_RunsDoNotInterfere ==
    \A p \in Commands :
        /\ ~runs[p].touched
        /\ runs[p].pc # "failed"
        /\ runs[p].pc \in {"composed", "done"} => runs[p].made_of = {p}

----------------------------------------------------------------------------
(* save_script (llm_generator.py, research_script_generator.py) writes the
   script with json.dump(script, f, indent=2, ensure_ascii=False); the file
   is read back with json.load.

   A Python value is its type t with the characters s of a str, the number n
   of an int or a float, the items of a list or a dict and the keys of a
   dict.  A float is a number of ticks, Unit to the second, as a duration
   is.  The file is the sequence of its characters; the double quote, the
   backslash, the bell and the e with an acute accent are the characters
   "DQUOTE", "BSLASH", "x07" and "EACUTE". *)

PyValue(t, s, n, items, keys) == [t |-> t, s |-> s, n |-> n, items |-> items, keys |-> keys]

PyStr(s) == PyValue("str", s, 0, << >>, << >>)

PyInt(n) == PyValue("int", << >>, n, << >>, << >>)

PyFloat(n) == PyValue("float", << >>, n, << >>, << >>)

PyNone == PyValue("None", << >>, 0, << >>, << >>)

PyList(items) == PyValue("list", << >>, 0, items, << >>)

PyDict(keys, items) == PyValue("dict", << >>, 0, items, keys)

\* json.JSONDecodeError
JSONDecodeError == PyValue("JSONDecodeError", << >>, 0, << >>, << >>)

DigitChars == <<"0","1","2","3","4","5","6","7","8","9">>

\* the characters below U+0020
ControlChars == {"\n", "\t", "\r", "x07", "x08", "x0c"}

\* a / b to the nearest whole number, a >= 0
Nearest(a, b) == (2 * a + b) \div (2 * b)

\* str(n) of an int n >= 0
RECURSIVE NatDigits(_)
NatDigits(n) ==
    IF n < 10 THEN <<DigitChars[n + 1]>>
    ELSE NatDigits(n \div 10) \o <<DigitChars[(n % 10) + 1]>>

\* int.__repr__
int_repr(n) == IF n < 0 THEN <<"-">> \o NatDigits(0 - n) ELSE NatDigits(n)

\* float.__repr__: the shortest decimal that reads back as the same float,
\* with one digit after the point at least.  Floats that are ticks are
\* 1/2520 apart, so four digits after the point always read back.
float_repr(n) ==
    LET a == IF n < 0 THEN 0 - n ELSE n
        rest == a % Unit
        decimal(k) == Nearest(rest * 10^k, Unit)
        reads_back(k) == Nearest(decimal(k) * Unit, 10^k) = rest
        k == CHOOSE d \in 1..4 : reads_back(d) /\ \A c \in 1..(d - 1) : ~reads_back(c)
    IN  (IF n < 0 THEN <<"-">> ELSE << >>)
            \o NatDigits(a \div Unit) \o <<".">>
            \o [j \in 1..k |-> DigitChars[((decimal(k) \div 10^(k - j)) % 10) + 1]]

\* the string between quotes as it is, nothing escaped
py_encode_basestring_raw(s) == <<"DQUOTE">> \o s \o <<"DQUOTE">>

\* json.encoder.py_encode_basestring (ensure_ascii=False): the double quote,
\* the backslash and the control characters are escaped, every other
\* character is written as it is
RECURSIVE py_encode_basestring_chars(_)
py_encode_basestring_chars(s) ==
    IF s = << >> THEN << >>
    ELSE LET c == Head(s)
             replace ==
                 CASE c = "BSLASH" -> <<"BSLASH", "BSLASH">>
                   [] c = "DQUOTE" -> <<"BSLASH", "DQUOTE">>
                   [] c = "\n" -> <<"BSLASH", "n">>
                   [] c = "\t" -> <<"BSLASH", "t">>
                   [] c = "x07" -> <<"BSLASH", "u", "0", "0", "0", "7">>
                   [] OTHER -> <<c>>
         IN  replace \o py_encode_basestring_chars(Tail(s))

py_encode_basestring(s) == <<"DQUOTE">> \o py_encode_basestring_chars(s) \o <<"DQUOTE">>

\* '\n' + ' ' * (indent * level), indent=2
newline_indent(level) == <<"\n">> \o [j \in 1..(2 * level) |-> " "]

\* json.encoder._make_iterencode: the text of a value at a level of nesting
RECURSIVE iterencode(_, _)
RECURSIVE iterencode_items(_, _, _)
iterencode(o, level) ==
    CASE o.t = "str" -> py_encode_basestring(o.s)
      [] o.t = "None" -> <<"n","u","l","l">>
      [] o.t = "int" -> int_repr(o.n)
      [] o.t = "float" -> float_repr(o.n)
      [] o.t = "list" ->
            IF o.items = << >> THEN <<"[", "]">>
            ELSE <<"[">> \o iterencode_items(o, 1, level + 1) \o newline_indent(level) \o <<"]">>
      [] o.t = "dict" ->
            IF o.items = << >> THEN <<"{", "}">>
            ELSE <<"{">> \o iterencode_items(o, 1, level + 1) \o newline_indent(level) \o <<"}">>

\* the items of a list or a dict from the i-th on, each on a line of its
\* own, a comma between two of them; "key": before the value of a dict
iterencode_items(o, i, level) ==
    IF i > Len(o.items) THEN << >>
    ELSE newline_indent(level)
            \o (IF o.t = "dict" THEN py_encode_basestring(o.keys[i]) \o <<":", " ">> ELSE << >>)
            \o iterencode(o.items[i], level)
            \o (IF i < Len(o.items) THEN <<",">> ELSE << >>)
            \o iterencode_items(o, i + 1, level)

\* json.dump(obj, f, indent=2, ensure_ascii=False): the text written
json_dump(obj) == iterencode(obj, 0)

\* what a scan gives: the value and the place after it, or ok = FALSE where
\* the decoder raises
Scanned(val, end) == [ok |-> TRUE, val |-> val, end |-> end]

NotScanned == [ok |-> FALSE, val |-> PyNone, end |-> 0]

\* json.decoder.WHITESPACE.match: the place of the first character from i on
\* that is not white space
RECURSIVE skip_whitespace(_, _)
skip_whitespace(s, i) ==
    IF i <= Len(s) /\ s[i] \in {" ", "\t", "\n", "\r"} THEN skip_whitespace(s, i + 1) ELSE i

\* json.decoder.BACKSLASH
BACKSLASH ==
    [c \in {"DQUOTE", "BSLASH", "/", "b", "f", "n", "r", "t"} |->
        CASE c = "b" -> "x08" [] c = "f" -> "x0c" [] c = "n" -> "\n"
          [] c = "r" -> "\r" [] c = "t" -> "\t" [] OTHER -> c]

\* chr(int(esc, 16)) of the four digits after \u
DecodeUxxxx(esc) ==
    IF esc = <<"0", "0", "0", "7">> THEN "x07"
    ELSE IF esc = <<"0", "0", "e", "9">> THEN "EACUTE"
    ELSE "?"

\* json.decoder.py_scanstring (strict): the string whose opening quote is
\* before place i; chars is what has been read of it
RECURSIVE py_scanstring(_, _, _)
py_scanstring(s, i, chars) ==
    IF i > Len(s) THEN NotScanned
    ELSE IF s[i] = "DQUOTE" THEN Scanned(PyStr(chars), i + 1)
    ELSE IF s[i] = "BSLASH"
    THEN IF i + 1 > Len(s) THEN NotScanned
         ELSE IF s[i + 1] = "u"
         THEN IF i + 5 > Len(s) THEN NotScanned
              ELSE py_scanstring(s, i + 6, Append(chars, DecodeUxxxx(SubSeq(s, i + 2, i + 5))))
         ELSE IF s[i + 1] \in DOMAIN BACKSLASH
         THEN py_scanstring(s, i + 2, Append(chars, BACKSLASH[s[i + 1]]))
         ELSE NotScanned
    ELSE IF s[i] \in ControlChars THEN NotScanned
    ELSE py_scanstring(s, i + 1, Append(chars, s[i]))

\* the place of the first character from i on that is not a digit
RECURSIVE DigitsEnd(_, _)
DigitsEnd(s, i) ==
    IF i <= Len(s) /\ \E d \in DOMAIN DigitChars : DigitChars[d] = s[i]
    THEN DigitsEnd(s, i + 1) ELSE i

\* int() of the digits s[i..j-1]
RECURSIVE ToNat(_, _, _)
ToNat(s, i, j) ==
    IF i >= j THEN 0
    ELSE 10 * ToNat(s, i, j - 1) + ((CHOOSE d \in DOMAIN DigitChars : DigitChars[d] = s[j - 1]) - 1)

\* json.scanner.NUMBER_RE and _scan_once for a number:
\* (-?(?:0|[1-9]\d*))(\.\d+)? is an int without a fraction, and a float,
\* the nearest there is, with one
match_number(s, i) ==
    LET negative == i <= Len(s) /\ s[i] = "-"
        first == IF negative THEN i + 1 ELSE i
        int_end == IF first <= Len(s) /\ s[first] = "0" THEN first + 1 ELSE DigitsEnd(s, first)
        integer == ToNat(s, first, int_end)
        has_frac == /\ int_end + 1 <= Len(s)
                    /\ s[int_end] = "."
                    /\ DigitsEnd(s, int_end + 1) > int_end + 1
        frac_end == DigitsEnd(s, int_end + 1)
        k == frac_end - (int_end + 1)
        size == integer * Unit + Nearest(ToNat(s, int_end + 1, frac_end) * Unit, 10^k)
    IN  IF int_end = first THEN NotScanned
        ELSE IF has_frac
        THEN Scanned(PyFloat(IF negative THEN 0 - size ELSE size), frac_end)
        ELSE Scanned(PyInt(IF negative THEN 0 - integer ELSE integer), int_end)

\* json.scanner.py_make_scanner._scan_once: the value that begins at place i
\* json.decoder.JSONArray: the list whose items so far are items, the next
\* of them (or the closing bracket of an empty list) at place i
\* json.decoder.JSONObject: the same for a dict, its keys so far keys
RECURSIVE scan_once(_, _)
RECURSIVE JSONArray(_, _, _)
RECURSIVE JSONObject(_, _, _, _)
scan_once(s, i) ==
    IF i > Len(s) THEN NotScanned
    ELSE CASE s[i] = "DQUOTE" -> py_scanstring(s, i + 1, << >>)
           [] s[i] = "{" -> JSONObject(s, skip_whitespace(s, i + 1), << >>, << >>)
           [] s[i] = "[" -> JSONArray(s, skip_whitespace(s, i + 1), << >>)
           [] s[i] = "n" ->
                 IF i + 3 <= Len(s) /\ SubSeq(s, i, i + 3) = <<"n","u","l","l">>
                 THEN Scanned(PyNone, i + 4) ELSE NotScanned
           [] OTHER -> match_number(s, i)

JSONArray(s, i, items) ==
    IF i > Len(s) THEN NotScanned
    ELSE IF s[i] = "]" /\ items = << >> THEN Scanned(PyList(<< >>), i + 1)
    ELSE LET value == scan_once(s, i)
             end == skip_whitespace(s, value.end)
         IN  IF ~value.ok \/ end > Len(s) THEN NotScanned
             ELSE IF s[end] = ","
             THEN JSONArray(s, skip_whitespace(s, end + 1), Append(items, value.val))
             ELSE IF s[end] = "]" THEN Scanned(PyList(Append(items, value.val)), end + 1)
             ELSE NotScanned

JSONObject(s, i, keys, items) ==
    IF i > Len(s) THEN NotScanned
    ELSE IF s[i] = "}" /\ items = << >> THEN Scanned(PyDict(<< >>, << >>), i + 1)
    ELSE IF s[i] # "DQUOTE" THEN NotScanned
    ELSE LET key == py_scanstring(s, i + 1, << >>)
             colon == skip_whitespace(s, key.end)
             value == scan_once(s, skip_whitespace(s, colon + 1))
             end == skip_whitespace(s, value.end)
         IN  IF ~key.ok \/ colon > Len(s) THEN NotScanned
             ELSE IF s[colon] # ":" THEN NotScanned
             ELSE IF ~value.ok \/ end > Len(s) THEN NotScanned
             ELSE IF s[end] = ","
             THEN JSONObject(s, skip_whitespace(s, end + 1),
                             Append(keys, key.val.s), Append(items, value.val))
             ELSE IF s[end] = "}"
             THEN Scanned(PyDict(Append(keys, key.val.s), Append(items, value.val)), end + 1)
             ELSE NotScanned

\* json.load(f): the value of the whole text; JSONDecodeError when it is
\* not one value with white space around it
json_load(s) ==
    LET obj == scan_once(s, skip_whitespace(s, 1))
    IN  IF obj.ok /\ skip_whitespace(s, obj.end) > Len(s) THEN obj.val ELSE JSONDecodeError

\* the most scenes of a script that is saved
MaxSavedScenes == 2

\* d[key] of a dict, and key in d
Get(d, key) == d.items[CHOOSE i \in DOMAIN d.keys : d.keys[i] = key]

HasKey(d, key) == \E i \in DOMAIN d.keys : d.keys[i] = key

\* d[key] = value for a key the dict does not have yet
Set(d, key, value) == PyDict(Append(d.keys, key), Append(d.items, value))

\* texts of a script: plain, with double quotes, and with a backslash before
\* an n, a line break, a letter that is not ASCII and a control character
SavedTexts ==
    {<< >>, <<"D","i","d"," ","y","o","u"," ","k","n","o","w","?">>,
     <<"S","a","y"," ","DQUOTE","h","i","DQUOTE">>,
     <<"a","BSLASH","n","\n","EACUTE","\t","x07">>}

\* durations: 3.0 and float(time_per_scene) of the builders, 57/9 and 1/7 of
\* a second, and the ints a language model may give
SavedDurations == {PyFloat(3 * Unit), PyFloat((57 * Unit) \div 9), PyFloat(Unit \div 7), PyInt(5), PyInt(-1)}

\* a + b of two numbers: a float when one of them is
Plus(a, b) == IF a.t = "int" /\ b.t = "int" THEN PyInt(a.n + b.n)
              ELSE PyFloat((IF a.t = "int" THEN a.n * Unit ELSE a.n)
                            + (IF b.t = "int" THEN b.n * Unit ELSE b.n))

\* hook['duration'] + sum(s['duration'] for s in scenes)
RECURSIVE SumOfDurations(_, _)
SumOfDurations(scenes, i) ==
    IF i > Len(scenes) THEN PyInt(0)
    ELSE Plus(SumOfDurations(scenes, i + 1), Get(scenes[i], <<"d","u","r","a","t","i","o","n">>))

\* the hook of a script
SavedHook(hook_text, duration) ==
    PyDict(<<<<"t","e","x","t">>, <<"d","u","r","a","t","i","o","n">>, <<"v","i","s","u","a","l","_","p","r","o","m","p","t">>, <<"t","e","x","t","_","o","v","e","r","l","a","y">>>>,
         <<PyStr(hook_text), duration, PyStr(<<"N","e","w","s"," ","s","t","y","l","e",","," ">> \o hook_text), PyStr(Take(hook_text, 3))>>)

\* a scene of a script
SavedScene(narration, duration) ==
    PyDict(<<<<"n","a","r","r","a","t","i","o","n">>, <<"d","u","r","a","t","i","o","n">>, <<"v","i","s","u","a","l","_","p","r","o","m","p","t">>, <<"t","e","x","t","_","o","v","e","r","l","a","y">>, <<"f","a","c","t","_","s","o","u","r","c","e">>>>,
         <<PyStr(narration), duration, PyStr(<<"V","i","s","u","a","l"," ","o","f",":"," ">> \o narration),
           PyStr(Take(narration, 3)), PyStr(<<"R","e","s","e","a","r","c","h"," ","f","a","c","t"," ","#","1">>)>>)

\* the script a builder returns
SavedScript(hook, scenes) ==
    PyDict(<<<<"h","o","o","k">>, <<"s","c","e","n","e","s">>, <<"t","o","t","a","l","_","d","u","r","a","t","i","o","n">>>>,
         <<hook, PyList(scenes), Plus(Get(hook, <<"d","u","r","a","t","i","o","n">>), SumOfDurations(scenes, 1))>>)

\* asdict(Source(...)) with and without a date
SavedSources ==
    PyList(<<PyDict(<<<<"t","i","t","l","e">>, <<"u","r","l">>, <<"s","n","i","p","p","e","t">>, <<"p","u","b","l","i","s","h","e","d","_","d","a","t","e">>, <<"d","o","m","a","i","n">>>>,
                <<PyStr(<<"A","I"," ","DQUOTE","n","e","w","s","DQUOTE">>), PyStr(<<"h","t","t","p","s",":","/","/","a",".","b","/","c","?","d","=","1">>),
                  PyStr(<<"n","e","w"," ","v","o","t","e">>), PyNone, PyStr(<<"a",".","b">>)>>),
           PyDict(<<<<"t","i","t","l","e">>, <<"u","r","l">>, <<"s","n","i","p","p","e","t">>, <<"p","u","b","l","i","s","h","e","d","_","d","a","t","e">>, <<"d","o","m","a","i","n">>>>,
                <<PyStr(<<"B">>), PyStr(<<"b">>), PyStr(<< >>), PyStr(<<"2","0","2","4","-","0","1","-","0","2">>), PyStr(<<"b">>)>>)>>)

\* generate_script_from_topic, step 3: script['sources'],
\* script['research_summary'] and script['category']
SavedWithSources(d) ==
    Set(Set(Set(d, <<"s","o","u","r","c","e","s">>, SavedSources), <<"r","e","s","e","a","r","c","h","_","s","u","m","m","a","r","y">>, PyStr(<<"F","a","c","t"," ","a","."," ","F","a","c","t"," ","b">>)),
        <<"c","a","t","e","g","o","r","y">>, PyStr(<<"g","e","n","e","r","a","l">>))

\* _enhance_visual_prompts: image_search_keywords of every scene and of the hook
SavedWithKeywords(d) ==
    LET keywords == PyList(<<PyStr(<<"M","a","r","s">>), PyStr(<<"n","e","w","s">>)>>)
        scenes == Get(d, <<"s","c","e","n","e","s">>).items
    IN  PyDict(d.keys,
             [i \in DOMAIN d.keys |->
                 IF d.keys[i] = <<"h","o","o","k">> THEN Set(d.items[i], <<"i","m","a","g","e","_","s","e","a","r","c","h","_","k","e","y","w","o","r","d","s">>, keywords)
                 ELSE IF d.keys[i] = <<"s","c","e","n","e","s">>
                 THEN PyList([j \in DOMAIN scenes |->
                               Set(scenes[j], <<"i","m","a","g","e","_","s","e","a","r","c","h","_","k","e","y","w","o","r","d","s">>,
                                   IF j = 1 THEN keywords ELSE PyList(<< >>))])
                 ELSE d.items[i]])

\* the scenes of the scripts that are saved
SavedSceneChoices ==
    {SavedScene(<<"D","i","d"," ","y","o","u"," ","k","n","o","w","?">>, PyFloat((57 * Unit) \div 9)),
     SavedScene(<<"S","a","y"," ","DQUOTE","h","i","DQUOTE">>, PyFloat(Unit \div 7)),
     SavedScene(<<"a","BSLASH","n","\n","EACUTE","\t","x07">>, PyInt(5)),
     SavedScene(<< >>, PyInt(-1))}

\* the scripts that are saved
SavedScripts ==
    LET plain == {SavedScript(SavedHook(hook_text, duration), scenes) :
                     hook_text \in SavedTexts, duration \in {PyFloat(3 * Unit), PyInt(2)},
                     scenes \in UNION {[1..n -> SavedSceneChoices] : n \in 0..MaxSavedScenes}}
        sourced == plain \cup {SavedWithSources(d) : d \in plain}
    IN  sourced \cup {SavedWithKeywords(d) : d \in sourced}

SaveInit ==
    /\ OlderIdle
    /\ fetcher = << >>
    /\ fs = << >>
    /\ runs = << >>
    /\ \E saved \in SavedScripts :
          saving = [script |-> saved, file |-> << >>, sources_file |-> << >>,
                    loaded |-> PyNone, spc |-> "composed"]

\* save_script: the script is written to the file, and its sources to
\* sources.json when it has them
SaveScript ==
    /\ saving # << >>
    /\ saving.spc = "composed"
    /\ saving' = [saving EXCEPT
                     !.file = json_dump(saving.script),
                     !.sources_file = IF HasKey(saving.script, <<"s","o","u","r","c","e","s">>)
                                      THEN json_dump(Get(saving.script, <<"s","o","u","r","c","e","s">>))
                                      ELSE << >>,
                     !.spc = "saved"]
    /\ UNCHANGED <<olderVars, fetcher, fs, runs>>

\* the written file is read back: json.load
LoadScript ==
    /\ saving # << >>
    /\ saving.spc = "saved"
    /\ saving' = [saving EXCEPT !.loaded = json_load(saving.file), !.spc = "loaded"]
    /\ UNCHANGED <<olderVars, fetcher, fs, runs>>

SaveNext == SaveScript \/ LoadScript

SpecSave == SaveInit /\ [][SaveNext]_vars

----------------------------------------------------------------------------
(* Properties of save_script *)

\* C22: a script saved with save_script and read back from the written file
\* as JSON is equal to the original field for field: the hook, the scenes
\* in their order, total_duration, and the sources, the category and the
\* research_summary when the script has them.
C22_SavedScriptReadsBackEqual ==
    (saving # << >> /\ saving.spc = "loaded") =>
        /\ saving.loaded.t = "dict"
        /\ saving.loaded.keys = saving.script.keys
        /\ \A i \in DOMAIN saving.script.keys : saving.loaded.items[i] = saving.script.items[i]
        /\ saving.loaded = saving.script

\* a script with sources, double quotes in the text of its hook and a scene
\* of 57/9 seconds has been saved and read back, and sources.json written
C22_Witness ==
    /\ saving # << >>
    /\ saving.spc = "loaded"
    /\ HasKey(saving.script, <<"s","o","u","r","c","e","s">>)
    /\ Get(Get(saving.script, <<"h","o","o","k">>), <<"t","e","x","t">>).s = <<"S","a","y"," ","DQUOTE","h","i","DQUOTE">>
    /\ Len(Get(saving.script, <<"s","c","e","n","e","s">>).items) = 2
    /\ Get(Get(saving.script, <<"s","c","e","n","e","s">>).items[1], <<"d","u","r","a","t","i","o","n">>) = PyFloat((57 * Unit) \div 9)
    /\ Get(Get(saving.script, <<"s","c","e","n","e","s">>).items[2], <<"n","a","r","r","a","t","i","o","n">>).s = <<"a","BSLASH","n","\n","EACUTE","\t","x07">>
    /\ saving.loaded = saving.script
    /\ saving.sources_file # << >>

====
